---- MODULE Spec2Model ----
(***************************************************************************)
(* Registry Consistency & Compliance Engine of the Skill Factory CLI.      *)
(* The model follows scripts/skill-factory.ts (v2.1): the registry store   *)
(* (loadRegistry / saveRegistry), the synchronizer (scanLocalSkills,       *)
(* registerSkill) and the part of createSkill that touches the skill       *)
(* directory tree and the registry document.                               *)
(***************************************************************************)
EXTENDS Integers, Sequences, FiniteSets, TLC

\* ------------------------------------------------------------------------
\* Bounds of the model
\* ------------------------------------------------------------------------
MaxTime == 1        \* the clock takes the values 0..MaxTime
MaxRuns == 3        \* invocations started in a run of the concurrent system

\* ------------------------------------------------------------------------
\* Fixed data of the program
\* ------------------------------------------------------------------------
\* scan order of scanLocalSkills; also the default category set of a registry
categories == <<"web", "code", "data", "automation">>

Cats == {categories[i] : i \in 1..Len(categories)}

\* the skill directories skills/<category>/<name> the commands and the
\* operator's edits are exercised with: one name under two categories, and a
\* second name
Paths == {<<"web", "a">>, <<"automation", "a">>, <<"automation", "b">>}

\* the trees explored: the sets of directories that exist together
Trees == {{<<"web", "a">>, <<"automation", "a">>},
          {<<"web", "a">>, <<"automation", "b">>}}

\* skill names (already kebab-case), listed in directory (readdir) order
NameOrder == <<"a", "b">>

Names == {NameOrder[i] : i \in 1..Len(NameOrder)}

StatusEnum == {"production", "beta", "alpha", "deprecated"}

\* ------------------------------------------------------------------------
\* JSON values of the manifest fields the synchronizer reads.  A string is a
\* sequence of one-character strings, so that the semver pattern is computed.
\* ------------------------------------------------------------------------
Absent == [t |-> "absent", s |-> <<>>]

Str(s) == [t |-> "str", s |-> s]

\* a number, written in decimal
Num(s) == [t |-> "num", s |-> s]

Null == [t |-> "null", s |-> <<>>]

\* an array of one string s
ArrOfStr(s) == [t |-> "arr1", s |-> s]

\* JavaScript truthiness of a manifest value: undefined, null, "" and 0 are
\* falsy
Truthy(v) ==
  CASE v.t = "str" -> v.s # <<>>
    [] v.t = "num" -> v.s # <<"0">>
    [] v.t \in {"absent", "null"} -> FALSE
    [] OTHER -> TRUE

\* x || d
OrElse(v, d) == IF Truthy(v) THEN v ELSE d

Digits == {"0", "1", "2", "3", "4", "5", "6", "7", "8", "9"}

\* position reached after the maximal run of digits of s that starts at i
RECURSIVE SkipDigits(_, _)
SkipDigits(s, i) ==
  IF i <= Len(s) /\ s[i] \in Digits THEN SkipDigits(s, i + 1) ELSE i

\* /^\d+\.\d+\.\d+$/.test(s)
SemverPattern(v) ==
  /\ v.t = "str"
  /\ LET s  == v.s
         e1 == SkipDigits(s, 1)
         e2 == SkipDigits(s, e1 + 1)
         e3 == SkipDigits(s, e2 + 1)
     IN  /\ e1 > 1
         /\ e1 <= Len(s) /\ s[e1] = "."
         /\ e2 > e1 + 1
         /\ e2 <= Len(s) /\ s[e2] = "."
         /\ e3 > e2 + 1
         /\ e3 = Len(s) + 1

DefaultVersion == Str(<<"1", ".", "0", ".", "0">>)

DefaultCapability == Str(<<"A", "I">>)

\* the manifests a user may put on disk (parsed content of mcp-config.json):
\* one without tool description whose version is "1.0", and a well-formed one
\* (the manifest createSkill writes)
UserManifests ==
  { [version |-> Str(<<"1", ".", "0">>), desc |-> Absent],
    [version |-> DefaultVersion,         desc |-> Str(<<"S">>)] }

\* state of one directory skills/<category>/<name>
NoDir == [kind |-> "nodir", version |-> Absent, desc |-> Absent]

BadManifest == [kind |-> "bad", version |-> Absent, desc |-> Absent]

Parsed(m) == [kind |-> "ok", version |-> m.version, desc |-> m.desc]

\* ------------------------------------------------------------------------
\* Manifest validation
\* ------------------------------------------------------------------------
\* MCP_2026_SCHEMA.required
required == <<"name", "version", "protocol", "tools">>

Protocol2026 == Str(<<"mcp-2026">>)

\* String(v), as the pattern test and the template strings convert a value
StringOf(v) == IF v.t = "null" THEN <<"n", "u", "l", "l">> ELSE v.s

\* field in config
HasKey(config, field) == config[field].t # "absent"

\* Array.isArray(config.tools)
IsArray(v) == v.t = "arr"

ErrMissing(field) == [e |-> "Missing required field", field |-> field]
ErrName == [e |-> "Field \"name\" must be a string"]
ErrVersion(v) == [e |-> "Field \"version\" must match semver format", got |-> StringOf(v)]
ErrProtocol(v) == [e |-> "Field \"protocol\" should be \"mcp-2026\"", got |-> StringOf(v)]
ErrTools == [e |-> "Field \"tools\" must be an array"]
ErrTool(i, field) == [e |-> "Tool: missing", i |-> i, field |-> field]

\* the required-field loop as it would be if it tested the value of the
\* field instead of the presence of the key
missingRequiredFalsy(config) ==
  SelectSeq([i \in 1..Len(required) |-> ErrMissing(required[i])],
            LAMBDA err : ~Truthy(config[err.field]))

\* the loop over schema.required
missingRequired(config) ==
  SelectSeq([i \in 1..Len(required) |-> ErrMissing(required[i])],
            LAMBDA err : ~HasKey(config, err.field))

\* the three checks of the tool at index i (0-based, as printed)
toolErrors(tool, i) ==
  (IF ~Truthy(tool.name) THEN <<ErrTool(i, "name")>> ELSE <<>>)
  \o (IF ~Truthy(tool.description) THEN <<ErrTool(i, "description")>> ELSE <<>>)
  \o (IF ~Truthy(tool.inputSchema) THEN <<ErrTool(i, "inputSchema")>> ELSE <<>>)

RECURSIVE toolsErrors(_, _)
toolsErrors(items, i) ==
  IF i > Len(items) THEN <<>>
  ELSE toolErrors(items[i], i - 1) \o toolsErrors(items, i + 1)

\* reading a property of tools[i] throws when the element is null
throwsOnTool(config) ==
  /\ IsArray(config.tools)
  /\ \E i \in 1..Len(config.tools.items) : config.tools.items[i].t = "null"

\* validateAgainstSchema(config, MCP_2026_SCHEMA); a config that is null
\* makes the in operator throw
validateAgainstSchema(config) ==
  IF config.t = "null" \/ throwsOnTool(config)
  THEN [threw |-> TRUE, valid |-> FALSE, errors |-> <<>>]
  ELSE LET errors ==
             missingRequired(config)
             \o (IF Truthy(config.name) /\ config.name.t # "str"
                 THEN <<ErrName>> ELSE <<>>)
             \o (IF Truthy(config.version)
                    /\ ~SemverPattern(Str(StringOf(config.version)))
                 THEN <<ErrVersion(config.version)>> ELSE <<>>)
             \o (IF Truthy(config.protocol) /\ config.protocol # Protocol2026
                 THEN <<ErrProtocol(config.protocol)>> ELSE <<>>)
             \o (IF Truthy(config.tools) /\ ~IsArray(config.tools)
                 THEN <<ErrTools>> ELSE <<>>)
             \o (IF IsArray(config.tools)
                 THEN toolsErrors(config.tools.items, 1) ELSE <<>>)
       IN  [threw |-> FALSE, valid |-> Len(errors) = 0, errors |-> errors]

\* tools of a manifest
FullTool == [t |-> "obj", name |-> Str(<<"t">>), description |-> Str(<<"d">>),
             inputSchema |-> [t |-> "obj", s |-> <<>>]]
ToolNoDescription == [FullTool EXCEPT !.description = Absent]
\* a tool whose inputSchema is a string
ToolSchemaString == [FullTool EXCEPT !.inputSchema = Str(<<"s">>)]
\* elements of tools that are not objects: null, and a string (whose
\* properties name, description and inputSchema read as undefined)
NullTool == [t |-> "null", name |-> Absent, description |-> Absent,
             inputSchema |-> Absent]
StringTool == [t |-> "str", name |-> Absent, description |-> Absent,
               inputSchema |-> Absent]
ToolsArray(items) == [t |-> "arr", items |-> items]

\* the manifests given to the validator
ConfigNames == {Absent, Str(<<>>), Str(<<"x">>), Num(<<"0">>), Num(<<"5">>)}
ConfigVersions ==
  {Absent, Str(<<>>), Str(<<"1", ".", "0">>), DefaultVersion, Num(<<"1">>),
   Null, ArrOfStr(<<"1", ".", "0", ".", "0">>)}
ConfigProtocols == {Absent, Protocol2026, Str(<<"mcp">>), Str(<<>>)}
ConfigTools ==
  {Absent, Null, Str(<<"x">>), ToolsArray(<<>>), ToolsArray(<<FullTool>>),
   ToolsArray(<<ToolNoDescription, FullTool>>),
   ToolsArray(<<FullTool, StringTool>>), ToolsArray(<<ToolSchemaString>>),
   ToolsArray(<<FullTool, NullTool>>)}
Configs ==
  {[t |-> "null"]}
  \cup [t : {"obj"}, name : ConfigNames, version : ConfigVersions,
        protocol : ConfigProtocols, tools : ConfigTools]

\* ------------------------------------------------------------------------
\* Security audit: the pattern rules.  A line of source is a sequence of
\* one-character strings; a pattern is a sequence of elements, each a
\* character class taken once, optionally, zero or more times, or one or
\* more times.
\* ------------------------------------------------------------------------
\* \s, as far as it can occur inside a line
Space == {" ", "\t", "\r"}

Quotes == {"\"", "'"}

\* the grave accent, which cannot be written in a string here
Backtick == "grave"

\* [A-Z_]
UpperOrUnderscore ==
  {"A", "B", "C", "D", "E", "F", "G", "H", "I", "J", "K", "L", "M", "N", "O",
   "P", "Q", "R", "S", "T", "U", "V", "W", "X", "Y", "Z", "_"}

\* the other case of the letters of the patterns that have the i flag
Upper ==
  [a |-> "A", p |-> "P", i |-> "I", k |-> "K", e |-> "E", y |-> "Y",
   s |-> "S", c |-> "C", r |-> "R", t |-> "T"]

One(cs) == <<[k |-> "one", cs |-> cs, neg |-> FALSE, w |-> <<>>]>>
Opt(cs) == <<[k |-> "opt", cs |-> cs, neg |-> FALSE, w |-> <<>>]>>
Star(cs) == <<[k |-> "star", cs |-> cs, neg |-> FALSE, w |-> <<>>]>>
Plus(cs) == <<[k |-> "plus", cs |-> cs, neg |-> FALSE, w |-> <<>>]>>
PlusNot(cs) == <<[k |-> "plus", cs |-> cs, neg |-> TRUE, w |-> <<>>]>>

\* a run of literal characters, and the same under the i flag: for each
\* position the characters that match there
Lit(w) == <<[k |-> "lit", cs |-> {}, neg |-> FALSE, w |-> [j \in 1..Len(w) |-> {w[j]}]]>>
LitI(w) == <<[k |-> "lit", cs |-> {}, neg |-> FALSE, w |-> [j \in 1..Len(w) |-> {w[j], Upper[w[j]]}]]>>

\* \s*=\s*["'][^"']+["']
AssignedLiteral ==
  Star(Space) \o Lit(<<"=">>) \o Star(Space) \o One(Quotes) \o PlusNot(Quotes) \o One(Quotes)

\* character c is in the class of element el
InClass(c, el) == (c \in el.cs) # el.neg

\* the literal run w is in the line at position i
LitAt(w, line, i) ==
  /\ i + Len(w) - 1 <= Len(line)
  /\ \A j \in 1..Len(w) : line[i + j - 1] \in w[j]

\* the pattern, from its element j on, matches the line at position i
RECURSIVE MatchAt(_, _, _, _)
MatchAt(pattern, j, line, i) ==
  IF j > Len(pattern) THEN TRUE
  ELSE IF pattern[j].k = "lit"
  THEN LitAt(pattern[j].w, line, i) /\ MatchAt(pattern, j + 1, line, i + Len(pattern[j].w))
  ELSE IF pattern[j].k = "opt"
  THEN \/ MatchAt(pattern, j + 1, line, i)
       \/ i <= Len(line) /\ InClass(line[i], pattern[j]) /\ MatchAt(pattern, j + 1, line, i + 1)
  ELSE IF pattern[j].k = "star"
  THEN \/ MatchAt(pattern, j + 1, line, i)
       \/ i <= Len(line) /\ InClass(line[i], pattern[j]) /\ MatchAt(pattern, j, line, i + 1)
  ELSE IF pattern[j].k = "plus"
  THEN /\ i <= Len(line) /\ InClass(line[i], pattern[j])
       /\ \/ MatchAt(pattern, j + 1, line, i + 1)
          \/ MatchAt(pattern, j, line, i + 1)
  ELSE i <= Len(line) /\ InClass(line[i], pattern[j]) /\ MatchAt(pattern, j + 1, line, i + 1)

\* pattern.test(line): the patterns are not anchored and have no g flag
test(pattern, line) == \E i \in 1..(Len(line) + 1) : MatchAt(pattern, 1, line, i)

Rule(pattern, severity, category, message) ==
  [pattern |-> pattern, severity |-> severity, category |-> category, message |-> message]

dangerousPatterns ==
  << Rule(Lit(<<"e", "v", "a", "l">>) \o Star(Space) \o Lit(<<"(">>),
          "critical", "code-injection", "Use of eval() - potential code injection"),
     Rule(Lit(<<"F", "u", "n", "c", "t", "i", "o", "n">>) \o Star(Space) \o Lit(<<"(">>),
          "critical", "code-injection", "Dynamic Function creation - potential code injection"),
     Rule(Lit(<<"e", "x", "e", "c">>) \o Star(Space) \o Lit(<<"(">>),
          "high", "command-injection", "exec() call - potential command injection"),
     Rule(Lit(<<"s", "p", "a", "w", "n">>) \o Star(Space) \o Lit(<<"(">>),
          "high", "command-injection", "spawn() call - potential command injection"),
     Rule(Lit(<<"c", "h", "i", "l", "d", "_", "p", "r", "o", "c", "e", "s", "s">>),
          "high", "command-injection", "child_process import - review for command injection"),
     Rule(Lit(<<"p", "r", "o", "c", "e", "s", "s", ".", "e", "n", "v", ".">>) \o Plus(UpperOrUnderscore) \o Star(Space) \o One({"+", Backtick}),
          "medium", "secret-leak", "Potential environment variable leak in string"),
     Rule(Lit(<<"p", "a", "s", "s", "w", "o", "r", "d">>) \o AssignedLiteral,
          "high", "hardcoded-secret", "Hardcoded password detected"),
     Rule(LitI(<<"a", "p", "i">>) \o Opt({"_", "-"}) \o LitI(<<"k", "e", "y">>) \o AssignedLiteral,
          "high", "hardcoded-secret", "Hardcoded API key detected"),
     Rule(LitI(<<"s", "e", "c", "r", "e", "t">>) \o AssignedLiteral,
          "high", "hardcoded-secret", "Hardcoded secret detected"),
     Rule(Lit(<<"f", "i", "l", "e", ":", "/", "/", "/">>),
          "medium", "ssrf", "file:// protocol usage - potential SSRF"),
     Rule(Lit(<<".", ".", "/">>),
          "medium", "path-traversal", "Path traversal pattern detected") >>

filesToScan == <<"index.ts", "utils.ts", "resilience.ts", "progress.ts">>

\* ------------------------------------------------------------------------
\* Security audit: auditSkill and runAudit
\* ------------------------------------------------------------------------
\* the result auditSkill starts from
EmptyResult ==
  [passed |-> TRUE, issues |-> <<>>,
   summary |-> [critical |-> 0, high |-> 0, medium |-> 0, low |-> 0]]

\* an issue; file "" and line 0 stand for an issue without file or line
Issue(severity, category, message, file, line) ==
  [severity |-> severity, category |-> category, message |-> message,
   file |-> file, line |-> line]

\* result.issues.push(issue); result.summary[issue.severity]++
count(result, issue) ==
  [result EXCEPT !.issues = Append(@, issue), !.summary[issue.severity] = @ + 1]

\* the test of the scan as it would be if every match failed the gate
flipsGateAlways(severity) == TRUE

\* severity === "critical" || severity === "high"
flipsGate(severity) == severity \in {"critical", "high"}

\* lines of source given to the audit
LineClean == <<"x", " ", "=", " ", "1">>
LineEval == <<"e", "v", "a", "l", " ", "(", "x", ")">>
LineExecPath == <<"e", "x", "e", "c", "(", "\"", ".", ".", "/", "x", "\"", ")">>
LineSecret == <<"A", "P", "I", "-", "K", "E", "Y", " ", "=", " ", "'", "k", "'">>
LineEnv == <<"p", "r", "o", "c", "e", "s", "s", ".", "e", "n", "v", ".", "K", "E", "Y", " ", "+", " ", "x">>
LineFile == <<"f", "i", "l", "e", ":", "/", "/", "/", "e", "t", "c">>

SampleLines == {LineClean, LineEval, LineExecPath, LineSecret, LineEnv, LineFile}

\* the pairs (line, rule index) of these lines for which pattern.test(line)
\* is true
hits ==
  {<<x[1], x[2]>> : x \in {y \in SampleLines \X (1..Len(dangerousPatterns)) :
                             test(dangerousPatterns[y[2]].pattern, y[1])}}

\* the rules the loop over the rules would report if it left the line at
\* the first rule that matches
rulesMatchingFirst(line) ==
  {r \in 1..Len(dangerousPatterns) :
     /\ <<line, r>> \in hits
     /\ \A q \in 1..(r - 1) : <<line, q>> \notin hits}

\* the rules the loop over the rules reports for a line: every rule whose
\* pattern matches
rulesMatching(line) == {r \in 1..Len(dangerousPatterns) : <<line, r>> \in hits}

\* the number of lines of the longest source file of a directory
longest(dir) ==
  LET lens == {Len(dir.src[filesToScan[f]].lines) : f \in 1..Len(filesToScan)}
  IN  CHOOSE m \in lens : \A l \in lens : l <= m

\* the steps of the three nested loops of the scan in the order they are
\* taken: file f of filesToScan, then line number n, then rule r
scanSteps(dir) ==
  LET nl == longest(dir)
      nr == Len(dangerousPatterns)
  IN  [k \in 1..(Len(filesToScan) * nl * nr) |->
         [f |-> ((k - 1) \div (nl * nr)) + 1,
          n |-> (((k - 1) \div nr) % nl) + 1,
          r |-> ((k - 1) % nr) + 1]]

\* the issues of the file scan: a file that does not exist is skipped, and
\* each line of the others gets one issue for each rule that matches it
scanFiles(dir) ==
  LET taken == SelectSeq(scanSteps(dir),
                         LAMBDA c : /\ dir.src[filesToScan[c.f]].exists
                                    /\ c.n <= Len(dir.src[filesToScan[c.f]].lines)
                                    /\ c.r \in rulesMatching(dir.src[filesToScan[c.f]].lines[c.n]))
  IN  [k \in 1..Len(taken) |->
         Issue(dangerousPatterns[taken[k].r].severity, dangerousPatterns[taken[k].r].category,
               dangerousPatterns[taken[k].r].message, filesToScan[taken[k].f], taken[k].n)]

\* what the scan does with the issues it finds, in their order: push,
\* count, and fail the gate on a critical or high one
pushAll(result, issues) ==
  [passed  |-> result.passed /\ \A k \in 1..Len(issues) : ~flipsGate(issues[k].severity),
   issues  |-> result.issues \o issues,
   summary |-> [sev \in DOMAIN result.summary |->
                  result.summary[sev]
                  + Len(SelectSeq(issues, LAMBDA x : x.severity = sev))]]

\* the sandbox test as it would be if it knew "none" only
sandboxOffNoneOnly(mode) == mode = "none"

\* permissions?.sandbox?.mode === "none" || ... === "disabled"
sandboxOff(mode) == mode \in {"none", "disabled"}

\* the catch as it would be if a manifest that cannot be reviewed failed
\* the gate
catchManifestHigh(result) ==
  [count(result, Issue("high", "permissions",
           "Could not parse mcp-config.json for security review", "", 0))
   EXCEPT !.passed = FALSE]

\* the catch of the try block on mcp-config.json
catchManifest(result) ==
  count(result, Issue("low", "config",
          "Could not parse mcp-config.json for security review", "", 0))

\* the try block on mcp-config.json: a manifest that cannot be read or
\* parsed, or a network permission without an includes method, throws, and
\* the catch adds a low finding to what the block has added so far
checkManifest(result, manifest) ==
  LET unparsed == catchManifest(result)
      sandbox  == IF sandboxOff(manifest.sandbox)
                  THEN [count(result, Issue("high", "permissions",
                          "Sandbox mode is disabled - skill runs without restrictions",
                          "mcp-config.json", 0))
                        EXCEPT !.passed = FALSE]
                  ELSE result
  IN  CASE ~manifest.parses -> unparsed
        [] manifest.network = "wildcard" ->
             count(sandbox, Issue("medium", "permissions",
                     "Wildcard network permission - consider restricting domains",
                     "mcp-config.json", 0))
        [] manifest.network = "notArray" -> catchManifest(sandbox)
        [] OTHER -> sandbox

\* the check for tests/security.test.ts
checkTests(result, dir) ==
  IF ~dir.securityTest
  THEN count(result, Issue("medium", "testing",
               "Missing security test file (tests/security.test.ts)", "", 0))
  ELSE result

\* registry.skills.find as it would be if it took the first record whatever
\* its name
findSkillAny(skills, skill) == IF Len(skills) > 0 THEN 1 ELSE 0

\* registry.skills.find((s) => s.name === skill): the index of the first
\* record of that name, 0 when there is none
findSkill(skills, skill) ==
  IF \E i \in 1..Len(skills) : skills[i].name = skill
  THEN CHOOSE i \in 1..Len(skills) :
         /\ skills[i].name = skill
         /\ \A j \in 1..(i - 1) : skills[j].name # skill
  ELSE 0

\* auditSkill: the result, and the files of skill directories that were
\* tested for existence or read
auditSkill(registry, tree, skill) ==
  LET i == findSkill(registry.skills, skill)
  IN  IF i = 0
      THEN [result |-> [count(EmptyResult,
                              Issue("critical", "registry", "Skill not found in registry", "", 0))
                        EXCEPT !.passed = FALSE],
            reads |-> {}]
      ELSE LET skillDir == <<registry.skills[i].category, skill>>
               dir == tree[skillDir]
           IN  [result |-> checkTests(checkManifest(pushAll(EmptyResult, scanFiles(dir)),
                                                    dir.manifest), dir),
                reads |-> {<<skillDir, filesToScan[f]>> : f \in 1..Len(filesToScan)}
                          \cup {<<skillDir, "mcp-config.json">>,
                                <<skillDir, "tests/security.test.ts">>}]

severities == <<"critical", "high", "medium", "low">>

\* what runAudit prints for the severities from index k on: for each
\* severity that has issues, a heading and then its issues
RECURSIVE printGroups(_, _)
printGroups(result, k) ==
  IF k > Len(severities) THEN <<>>
  ELSE LET issues == SelectSeq(result.issues, LAMBDA x : x.severity = severities[k])
       IN  (IF Len(issues) = 0 THEN <<>>
            ELSE <<[k |-> "heading", severity |-> severities[k], n |-> Len(issues)]>>
                 \o [j \in 1..Len(issues) |-> [k |-> "issue", issue |-> issues[j]]])
           \o printGroups(result, k + 1)

\* the exit status as it would be if any issue failed the command
exitStatusAnyIssue(result) == IF Len(result.issues) > 0 THEN 1 ELSE 0

\* the exit status of runAudit: process.exit(1) when the gate failed
exitStatus(result) == IF result.passed THEN 0 ELSE 1

\* runAudit after auditSkill: what is printed, in order, and the exit status
runAudit(result) ==
  IF Len(result.issues) = 0
  THEN [out |-> <<[k |-> "No security issues found"]>>, exit |-> 0]
  ELSE [out |-> printGroups(result, 1)
                \o <<[k |-> "summary", summary |-> result.summary]>>
                \o <<[k |-> "verdict", passed |-> result.passed]>>,
        exit |-> exitStatus(result)]

\* ------------------------------------------------------------------------
\* The skill directories given to the audit
\* ------------------------------------------------------------------------
NoFile == [exists |-> FALSE, lines |-> <<>>]
File(lines) == [exists |-> TRUE, lines |-> lines]

Manifest(sandbox, network) == [parses |-> TRUE, sandbox |-> sandbox, network |-> network]
NoManifest == [parses |-> FALSE, sandbox |-> "", network |-> "absent"]

\* a directory that does not exist: no file in it
EmptyDir ==
  [src |-> [f \in {filesToScan[i] : i \in 1..Len(filesToScan)} |-> NoFile],
   manifest |-> NoManifest, securityTest |-> FALSE]

IndexTexts ==
  {NoFile, File(<<LineClean>>), File(<<LineClean, LineEval>>),
   File(<<LineExecPath, LineExecPath>>), File(<<LineEnv, LineFile>>),
   File(<<LineSecret>>)}

AuditManifests ==
  {NoManifest, Manifest("", "absent"), Manifest("none", "absent"),
   Manifest("disabled", "hosts"), Manifest("strict", "wildcard"),
   Manifest("none", "wildcard"), Manifest("none", "notArray")}

SkillDirs ==
  {[src |-> [f \in {filesToScan[i] : i \in 1..Len(filesToScan)} |->
               CASE f = "index.ts" -> ix
                 [] f = "utils.ts" -> ut
                 [] f = "resilience.ts" -> re
                 [] OTHER -> pr],
    manifest |-> m, securityTest |-> st] :
     ix \in IndexTexts, ut \in {NoFile, File(<<LineExecPath>>)},
     re \in {NoFile, File(<<LineEnv, LineFile>>)},
     pr \in {NoFile, File(<<LineClean, LineEval>>)},
     m \in AuditManifests, st \in BOOLEAN}

\* the directory whose content varies
AuditedPath == <<"web", "a">>

\* ------------------------------------------------------------------------
\* State
\* ------------------------------------------------------------------------
VARIABLES
  regFile,   \* registry/discovery.json: parseable or not, and the document in it
  dirs,      \* skills/<category>/<name>: the directory and its mcp-config.json
  now,       \* the wall clock
  last,      \* outcome of the most recent command: exit status, printed
             \* counts, and the registry file as it was before the command
  inv,       \* the invocations that run at the same time: where each one is
             \* and the registry it holds in memory
  saved,     \* the invocations that have saved so far, in the order of their saves
  val,       \* the manifest given to the validator and what the validator returned
  files,     \* skills/<category>/<name>: the files that the audit looks at
  aud,       \* outcome of the most recent audit command
  ins,       \* createSkill from the writing of the files on: the installs
  retry,     \* one call of withRetry
  research   \* one call of the deep-research skill

vars == <<regFile, dirs, now, last, inv, saved, val, files, aud, ins, retry, research>>

\* the CLI processes that may run at the same time
Procs == {1, 2}

\* the registry returned by loadRegistry when the file is absent or unparseable
FreshRegistry(t) ==
  [lastUpdated |-> t, skills |-> <<>>, categories |-> categories]

\* new Date().toISOString(): the k-th reading of the clock made by a command
\* that starts at time t0, when the clock advances just before the readings
\* numbered in T
getCurrentTimestamp(t0, T, k) == t0 + Cardinality({j \in T : j <= k})

\* loadRegistry as it would be if it returned what is in the file whether
\* or not it parses
loadRegistryNoCatch(file, t) == file.doc

\* loadRegistry: the parsed document, or a fresh registry when reading or
\* parsing throws
loadRegistry(file, t) == IF file.ok THEN file.doc ELSE FreshRegistry(t)

\* saveRegistry as it would be if it kept the records that are in the file
\* and not in the registry it is given
saveRegistryMerging(registry, t) ==
  [ok |-> TRUE,
   doc |-> [registry EXCEPT
              !.lastUpdated = t,
              !.skills = @ \o SelectSeq(regFile.doc.skills,
                                        LAMBDA r : \A i \in 1..Len(registry.skills) :
                                                     registry.skills[i].name # r.name)]]

\* saveRegistry: stamp lastUpdated and rewrite the whole document
saveRegistry(registry, t) ==
  [ok |-> TRUE, doc |-> [registry EXCEPT !.lastUpdated = t]]

\* registry.skills.findIndex((s) => s.name === name); 0 stands for -1
findIndex(skills, name) ==
  IF \E i \in 1..Len(skills) : skills[i].name = name
  THEN CHOOSE i \in 1..Len(skills) :
         /\ skills[i].name = name
         /\ \A j \in 1..(i - 1) : skills[j].name # name
  ELSE 0

\* the candidates of one category directory, in directory order
RECURSIVE scanCategory(_, _, _)
scanCategory(d, cat, i) ==
  IF i > Len(NameOrder) THEN <<>>
  ELSE LET n == NameOrder[i]
       IN  (IF d[<<cat, n>>].kind \in {"bad", "ok"}
            THEN <<[name |-> n, category |-> cat]>> ELSE <<>>)
           \o scanCategory(d, cat, i + 1)

\* scanLocalSkills: every directory with an mcp-config.json, category by
\* category in the fixed order
RECURSIVE scanFrom(_, _)
scanFrom(d, c) ==
  IF c > Len(categories) THEN <<>>
  ELSE scanCategory(d, categories[c], 1) \o scanFrom(d, c + 1)

scanLocalSkills(d) == scanFrom(d, 1)

\* the SkillConfig registerSkill derives from a parsed manifest
skillConfig(localSkill, mcpConfig, tCreated, tUpdated) ==
  [name       |-> localSkill.name,
   category   |-> localSkill.category,
   version    |-> OrElse(mcpConfig.version, DefaultVersion),
   capability |-> OrElse(mcpConfig.desc, DefaultCapability),
   status     |-> "alpha",
   profile    |-> FALSE,
   created    |-> tCreated,
   updated    |-> tUpdated]

\* the SkillConfig createSkill builds: one timestamp, runtime, permissions
\* and resource profile present
newSkill(cat, name, capability, timestamp) ==
  [name       |-> name,
   category   |-> cat,
   version    |-> DefaultVersion,
   capability |-> capability,
   status     |-> "alpha",
   profile    |-> TRUE,
   created    |-> timestamp,
   updated    |-> timestamp]

\* upsert as it would be without the line that keeps the created timestamp
upsertFreshCreated(st, localSkill, mcpConfig, tCreated, tUpdated) ==
  LET existingIndex == findIndex(st.skills, localSkill.name)
      cfg == skillConfig(localSkill, mcpConfig, tCreated, tUpdated)
  IN  IF existingIndex > 0
      THEN [st EXCEPT !.skills[existingIndex] = cfg, !.updated = @ + 1]
      ELSE [st EXCEPT !.skills = Append(@, cfg), !.registered = @ + 1]

\* upsert as it would be if it never looked for an existing record
upsertAlwaysPush(st, localSkill, mcpConfig, tCreated, tUpdated) ==
  [st EXCEPT !.skills = Append(@, skillConfig(localSkill, mcpConfig, tCreated, tUpdated)),
             !.registered = @ + 1]

\* upsert as it would be if an update were counted as a registration
upsertMiscount(st, localSkill, mcpConfig, tCreated, tUpdated) ==
  LET existingIndex == findIndex(st.skills, localSkill.name)
      cfg == skillConfig(localSkill, mcpConfig, tCreated, tUpdated)
  IN  IF existingIndex > 0
      THEN [st EXCEPT
              !.skills[existingIndex] =
                 [cfg EXCEPT !.created = st.skills[existingIndex].created],
              !.registered = @ + 1]
      ELSE [st EXCEPT !.skills = Append(@, cfg), !.registered = @ + 1]

\* body of the try block of registerSkill for one candidate: create or update
upsert(st, localSkill, mcpConfig, tCreated, tUpdated) ==
  LET existingIndex == findIndex(st.skills, localSkill.name)
      cfg == skillConfig(localSkill, mcpConfig, tCreated, tUpdated)
  IN  IF existingIndex > 0
      THEN [st EXCEPT
              !.skills[existingIndex] =
                 [cfg EXCEPT !.created = st.skills[existingIndex].created],
              !.updated = @ + 1]
      ELSE [st EXCEPT !.skills = Append(@, cfg), !.registered = @ + 1]

\* the loop as it would be with the try around the whole loop: the first
\* manifest that does not parse ends the batch
RECURSIVE registerLoopAbort(_, _, _, _, _, _)
registerLoopAbort(st, localSkills, d, i, t0, T) ==
  IF i > Len(localSkills) THEN st
  ELSE LET ls == localSkills[i]
           m  == d[<<ls.category, ls.name>>]
       IN  IF m.kind = "ok"
           THEN registerLoopAbort(upsert(st, ls, m,
                                         getCurrentTimestamp(t0, T, 2 * i),
                                         getCurrentTimestamp(t0, T, 2 * i + 1)),
                                  localSkills, d, i + 1, t0, T)
           ELSE st

\* the loop of register --all over the scanned candidates from index i on; a
\* manifest that does not parse throws inside the try and is skipped
RECURSIVE registerLoop(_, _, _, _, _, _)
registerLoop(st, localSkills, d, i, t0, T) ==
  IF i > Len(localSkills) THEN st
  ELSE LET ls == localSkills[i]
           m  == d[<<ls.category, ls.name>>]
           nx == IF m.kind = "ok"
                 THEN upsert(st, ls, m,
                             getCurrentTimestamp(t0, T, 2 * i),
                             getCurrentTimestamp(t0, T, 2 * i + 1))
                 ELSE st
       IN  registerLoop(nx, localSkills, d, i + 1, t0, T)

\* ------------------------------------------------------------------------
\* Commands (one invocation of the CLI runs to completion)
\* ------------------------------------------------------------------------
\* a directory may be made at path p
MayAdd(p) ==
  \E tree \in Trees : {k \in Cats \X Names : dirs[k].kind # "nodir"} \cup {p} \subseteq tree

\* the sets of clock readings, among those numbered in Reads, before which
\* the clock advances
TickSets(Reads) == {T \in SUBSET Reads : now + Cardinality(T) <= MaxTime}

\* loadRegistry reads the clock only when it builds a fresh registry
LoadReads(k) == IF regFile.ok THEN {} ELSE {k}

NoOutcome ==
  [cmd |-> "none", name |-> "", exit |-> 0,
   registered |-> 0, updated |-> 0, total |-> 0,
   reported |-> FALSE, wrote |-> FALSE, again |-> FALSE, pre |-> regFile]

Outcome(cmd, exit, wrote) ==
  [NoOutcome EXCEPT !.cmd = cmd, !.exit = exit, !.wrote = wrote]

\* updateReadmeTable throws when README.md cannot be read; an error that
\* reaches main().catch, or the catch of register --skill, exits with 1
updateReadmeTable(readme) == IF readme THEN 0 ELSE 1

\* create -c cat -n name -d capability; readme: README.md can be read
CreateSkill(cat, name, capability, readme) ==
  IF dirs[<<cat, name>>].kind # "nodir"
  THEN /\ last' = Outcome("create", 1, FALSE)
       /\ UNCHANGED <<regFile, dirs, now>>
  ELSE /\ MayAdd(<<cat, name>>)
       /\ \E T \in TickSets({1, 3} \cup LoadReads(2)) :
            LET timestamp == getCurrentTimestamp(now, T, 1)
                registry  == loadRegistry(regFile, getCurrentTimestamp(now, T, 2))
                pushed    == [registry EXCEPT
                                !.skills = Append(@, newSkill(cat, name, capability, timestamp))]
            IN  /\ regFile' = saveRegistry(pushed, getCurrentTimestamp(now, T, 3))
                /\ now' = now + Cardinality(T)
       /\ dirs' = [dirs EXCEPT ![<<cat, name>>] =
                     Parsed([version |-> DefaultVersion, desc |-> capability])]
       /\ last' = Outcome("create", updateReadmeTable(readme), TRUE)

\* register --all
RegisterAll(readme) ==
  LET localSkills == scanLocalSkills(dirs)
      R == 2 * Len(localSkills) + 2
      parsed == {i \in 1..Len(localSkills) :
                   dirs[<<localSkills[i].category, localSkills[i].name>>].kind = "ok"}
  IN  \E T \in TickSets(LoadReads(1) \cup {2 * i : i \in parsed}
                         \cup {2 * i + 1 : i \in parsed} \cup {R}) :
        LET registry == loadRegistry(regFile, getCurrentTimestamp(now, T, 1))
            st == registerLoop([skills |-> registry.skills, registered |-> 0, updated |-> 0],
                               localSkills, dirs, 1, now, T)
        IN  /\ regFile' = saveRegistry([registry EXCEPT !.skills = st.skills],
                                       getCurrentTimestamp(now, T, R))
            /\ now' = now + Cardinality(T)
            /\ last' = [Outcome("registerAll", updateReadmeTable(readme), TRUE) EXCEPT
                          !.registered = st.registered,
                          !.updated = st.updated,
                          !.total = Len(st.skills),
                          !.reported = readme,
                          !.again = (last.cmd = "registerAll" /\ last.wrote)]
            /\ UNCHANGED dirs

\* find as it would be if it took the first candidate whatever its name
findAny(localSkills, name) == IF localSkills = <<>> THEN 0 ELSE 1

\* localSkills.find((s) => s.name === name): the index of the first candidate
\* with that name; 0 stands for undefined
find(localSkills, name) ==
  LET found == {i \in 1..Len(localSkills) : localSkills[i].name = name}
  IN  IF found = {} THEN 0 ELSE CHOOSE i \in found : \A j \in found : i <= j

\* register --skill name
RegisterOne(name, readme) ==
  LET localSkills == scanLocalSkills(dirs)
      k == find(localSkills, name)
  IN  IF k = 0
      THEN /\ last' = [Outcome("registerOne", 1, FALSE) EXCEPT !.name = name]
           /\ UNCHANGED <<regFile, dirs, now>>
      ELSE LET localSkill == localSkills[k]
               m == dirs[<<localSkill.category, localSkill.name>>]
           IN  IF m.kind # "ok"
               THEN /\ last' = [Outcome("registerOne", 1, FALSE) EXCEPT !.name = name]
                    /\ UNCHANGED <<regFile, dirs, now>>
               ELSE \E T \in TickSets(LoadReads(1) \cup {2, 3, 4}) :
                      LET registry == loadRegistry(regFile, getCurrentTimestamp(now, T, 1))
                          st == upsert([skills |-> registry.skills, registered |-> 0, updated |-> 0],
                                       localSkill, m,
                                       getCurrentTimestamp(now, T, 2),
                                       getCurrentTimestamp(now, T, 3))
                      IN  /\ regFile' = saveRegistry([registry EXCEPT !.skills = st.skills],
                                                     getCurrentTimestamp(now, T, 4))
                          /\ now' = now + Cardinality(T)
                          /\ last' = [Outcome("registerOne", updateReadmeTable(readme), TRUE)
                                        EXCEPT !.name = name]
                          /\ UNCHANGED dirs

\* register without --skill and without --all
RegisterUsage ==
  /\ last' = Outcome("registerUsage", 1, FALSE)
  /\ UNCHANGED <<regFile, dirs, now>>

\* ------------------------------------------------------------------------
\* The operator's own edits between commands
\* ------------------------------------------------------------------------
\* a skill directory with an mcp-config.json is put on disk by hand
EnvAddSkill(cat, name, m) ==
  /\ dirs[<<cat, name>>].kind = "nodir"
  /\ MayAdd(<<cat, name>>)
  /\ dirs' = [dirs EXCEPT ![<<cat, name>>] = m]
  /\ last' = Outcome("env", 0, FALSE)
  /\ UNCHANGED <<regFile, now>>

\* an mcp-config.json is edited by hand and is no longer parseable JSON
EnvBreakManifest(cat, name) ==
  /\ dirs[<<cat, name>>].kind = "ok"
  /\ dirs' = [dirs EXCEPT ![<<cat, name>>] = BadManifest]
  /\ last' = Outcome("env", 0, FALSE)
  /\ UNCHANGED <<regFile, now>>

\* the registry document stops being parseable JSON (a merge conflict marker,
\* a hand edit); its records are still in the file
EnvDamageRegistry ==
  /\ regFile.ok
  /\ regFile' = [regFile EXCEPT !.ok = FALSE]
  /\ last' = [Outcome("env", 0, FALSE) EXCEPT !.pre = regFile']
  /\ UNCHANGED <<dirs, now>>

DirStates == {BadManifest} \cup {Parsed(m) : m \in UserManifests}

Capabilities == {Str(<<"S">>)}

Idle == [pc |-> "idle", seen |-> 0, mem |-> FreshRegistry(0)]

\* no audit command has run
NoAudit == [cmd |-> "none", exit |-> 0]
NoInstall == [pc |-> "none"]
NoRetry == [pc |-> "none"]
NoResearch == [pc |-> "none"]

\* nothing has been given to the validator
NotValidated == [done |-> FALSE]

Init ==
  /\ regFile \in {[ok |-> FALSE, doc |-> FreshRegistry(0)],
                  [ok |-> TRUE,  doc |-> FreshRegistry(0)]}
  /\ dirs = [k \in Cats \X Names |-> NoDir]
  /\ now = 0
  /\ last = NoOutcome
  /\ inv = [p \in Procs |-> Idle]
  /\ saved = <<>>
  /\ val = NotValidated
  /\ files = [k \in Cats \X Names |-> EmptyDir]
  /\ aud = NoAudit
  /\ ins = NoInstall
  /\ retry = NoRetry
  /\ research = NoResearch

\* one command at a time, each run to completion
Command ==
  \/ \E p \in Paths, cap \in Capabilities, readme \in BOOLEAN :
       CreateSkill(p[1], p[2], cap, readme)
  \/ \E readme \in BOOLEAN : RegisterAll(readme)
  \/ \E name \in Names, readme \in BOOLEAN : RegisterOne(name, readme)
  \/ RegisterUsage
  \/ \E p \in Paths, m \in DirStates : EnvAddSkill(p[1], p[2], m)
  \/ \E p \in Paths : EnvBreakManifest(p[1], p[2])
  \/ EnvDamageRegistry

Next == Command /\ UNCHANGED <<inv, saved, val, files, aud, ins, retry, research>>

Spec == Init /\ [][Next]_vars

\* ------------------------------------------------------------------------
\* Two invocations at the same time.  Each awaits the read of the registry
\* file, works on the registry in memory, and awaits the write; nothing
\* orders the reads and writes of two processes.
\* ------------------------------------------------------------------------
\* the invocations started so far
Started == Len(saved) + Cardinality({p \in Procs : inv[p].pc = "loaded"})

\* createSkill up to the push: the directory is made, the registry is loaded
\* and the new record is pushed in memory
StartCreate(p, cat, name, capability) ==
  /\ inv[p].pc = "idle"
  /\ Started < MaxRuns
  /\ dirs[<<cat, name>>].kind = "nodir"
  /\ MayAdd(<<cat, name>>)
  /\ \E T \in TickSets({1} \cup LoadReads(2)) :
       LET timestamp == getCurrentTimestamp(now, T, 1)
           registry  == loadRegistry(regFile, getCurrentTimestamp(now, T, 2))
       IN  /\ inv' = [inv EXCEPT ![p] =
                        [pc |-> "loaded", seen |-> Len(saved),
                         mem |-> [registry EXCEPT
                                    !.skills = Append(@, newSkill(cat, name, capability, timestamp))]]]
           /\ now' = now + Cardinality(T)
  /\ dirs' = [dirs EXCEPT ![<<cat, name>>] =
                Parsed([version |-> DefaultVersion, desc |-> capability])]
  /\ UNCHANGED <<regFile, last, saved>>

\* registerSkill --all up to the end of its loop
StartRegisterAll(p) ==
  LET localSkills == scanLocalSkills(dirs)
      parsed == {i \in 1..Len(localSkills) :
                   dirs[<<localSkills[i].category, localSkills[i].name>>].kind = "ok"}
  IN  /\ inv[p].pc = "idle"
      /\ Started < MaxRuns
      /\ \E T \in TickSets(LoadReads(1) \cup {2 * i : i \in parsed}
                             \cup {2 * i + 1 : i \in parsed}) :
           LET registry == loadRegistry(regFile, getCurrentTimestamp(now, T, 1))
               st == registerLoop([skills |-> registry.skills, registered |-> 0, updated |-> 0],
                                  localSkills, dirs, 1, now, T)
           IN  /\ inv' = [inv EXCEPT ![p] =
                            [pc |-> "loaded", seen |-> Len(saved),
                             mem |-> [registry EXCEPT !.skills = st.skills]]]
               /\ now' = now + Cardinality(T)
      /\ UNCHANGED <<regFile, dirs, last, saved>>

\* the await of saveRegistry of invocation p
Save(p) ==
  /\ inv[p].pc = "loaded"
  /\ \E T \in TickSets({1}) :
       /\ regFile' = saveRegistry(inv[p].mem, getCurrentTimestamp(now, T, 1))
       /\ now' = now + Cardinality(T)
  /\ inv' = [inv EXCEPT ![p].pc = "saved"]
  /\ saved' = Append(saved, p)
  /\ UNCHANGED <<dirs, last>>

\* invocation p ends
Finish(p) ==
  /\ inv[p].pc = "saved"
  /\ inv' = [inv EXCEPT ![p] = Idle]
  /\ UNCHANGED <<regFile, dirs, now, last, saved>>

\* a skill directory is put on disk by hand while no invocation runs
AddSkill(cat, name, m) ==
  /\ \A p \in Procs : inv[p].pc = "idle"
  /\ EnvAddSkill(cat, name, m)
  /\ UNCHANGED <<inv, saved>>

Concurrent ==
  \/ \E p \in Procs, k \in Paths, cap \in Capabilities : StartCreate(p, k[1], k[2], cap)
  \/ \E p \in Procs : StartRegisterAll(p)
  \/ \E p \in Procs : Save(p)
  \/ \E p \in Procs : Finish(p)
  \/ \E k \in Paths, m \in DirStates : AddSkill(k[1], k[2], m)

NextConc == Concurrent /\ UNCHANGED <<val, files, aud, ins, retry, research>>

SpecConc == Init /\ [][NextConc]_vars

\* ------------------------------------------------------------------------
\* The store, step by step.  One invocation at a time; writeFile opens the
\* registry file for writing, which empties it, and then writes the text.
\* The write can fail (disk full) or the process can be killed in between.
\* ------------------------------------------------------------------------
\* discovery.json just after writeFile has opened it: no text in it
Truncated == [ok |-> FALSE, doc |-> FreshRegistry(0)]

\* no other invocation is running
Alone(p) == \A q \in Procs \ {p} : inv[q].pc \in {"idle", "killed"}

\* listSkills: load the registry and print it
ListSkills(p) ==
  /\ inv[p].pc = "idle"
  /\ Alone(p)
  /\ \E T \in TickSets(LoadReads(1)) :
       /\ inv' = [inv EXCEPT ![p] =
                    [pc |-> "listed", seen |-> Len(saved),
                     mem |-> loadRegistry(regFile, getCurrentTimestamp(now, T, 1))]]
       /\ now' = now + Cardinality(T)
  /\ last' = Outcome("list", 0, FALSE)
  /\ UNCHANGED <<regFile, dirs, saved>>

\* saveRegistry up to the point where writeFile has opened the file:
\* lastUpdated is stamped in memory and the file is empty
WriteOpen(p) ==
  /\ inv[p].pc = "loaded"
  /\ \E T \in TickSets({1}) :
       /\ inv' = [inv EXCEPT ![p].pc = "writing",
                             ![p].mem.lastUpdated = getCurrentTimestamp(now, T, 1)]
       /\ now' = now + Cardinality(T)
  /\ regFile' = Truncated
  /\ saved' = Append(saved, p)
  /\ last' = Outcome("save", 0, FALSE)
  /\ UNCHANGED dirs

\* writeFile writes the text and closes the file
WriteDone(p) ==
  /\ inv[p].pc = "writing"
  /\ regFile' = saveRegistry(inv[p].mem, inv[p].mem.lastUpdated)
  /\ inv' = [inv EXCEPT ![p].pc = "saved"]
  /\ last' = [last EXCEPT !.wrote = TRUE]
  /\ UNCHANGED <<dirs, now, saved>>

\* the write fails, or the process is killed, before the text is written
WriteAbort(p) ==
  /\ inv[p].pc = "writing"
  /\ inv' = [inv EXCEPT ![p].pc = "killed"]
  /\ last' = [last EXCEPT !.exit = 1]
  /\ UNCHANGED <<regFile, dirs, now, saved>>

\* the invocation ends
Exit(p) ==
  /\ inv[p].pc \in {"saved", "listed"}
  /\ inv' = [inv EXCEPT ![p] = Idle]
  /\ UNCHANGED <<regFile, dirs, now, last, saved>>

StoreStep ==
  \/ \E p \in Procs, k \in Paths, cap \in Capabilities :
       Alone(p) /\ StartCreate(p, k[1], k[2], cap)
  \/ \E p \in Procs : Alone(p) /\ StartRegisterAll(p)
  \/ \E p \in Procs : ListSkills(p)
  \/ \E p \in Procs : WriteOpen(p)
  \/ \E p \in Procs : WriteDone(p)
  \/ \E p \in Procs : WriteAbort(p)
  \/ \E p \in Procs : Exit(p)
  \/ \E k \in Paths, m \in DirStates : AddSkill(k[1], k[2], m)

NextStore == StoreStep /\ UNCHANGED <<val, files, aud, ins, retry, research>>

SpecStore == Init /\ [][NextStore]_vars

\* ------------------------------------------------------------------------
\* The validator applied to a manifest
\* ------------------------------------------------------------------------
InitValidate ==
  /\ regFile = [ok |-> TRUE, doc |-> FreshRegistry(0)]
  /\ dirs = [k \in Cats \X Names |-> NoDir]
  /\ now = 0
  /\ last = NoOutcome
  /\ inv = [p \in Procs |-> Idle]
  /\ saved = <<>>
  /\ \E config \in Configs : val = [done |-> FALSE, config |-> config]
  /\ files = [k \in Cats \X Names |-> EmptyDir]
  /\ aud = NoAudit
  /\ ins = NoInstall
  /\ retry = NoRetry
  /\ research = NoResearch

Validate ==
  /\ ~val.done
  /\ val' = [done |-> TRUE, config |-> val.config,
             result |-> validateAgainstSchema(val.config)]
  /\ UNCHANGED <<regFile, dirs, now, last, inv, saved, files, aud, ins, retry, research>>

NextValidate == Validate

SpecValidate == InitValidate /\ [][NextValidate]_vars

\* ------------------------------------------------------------------------
\* The audit command
\* ------------------------------------------------------------------------
\* the registries the audit is run on: unparseable, empty, and with records
\* as createSkill writes them
AuditRegistries ==
  LET rec(cat, name) == newSkill(cat, name, Str(<<"S">>), 0)
      file(skills) == [ok |-> TRUE, doc |-> [FreshRegistry(0) EXCEPT !.skills = skills]]
  IN  {[ok |-> FALSE, doc |-> FreshRegistry(0)],
       file(<<>>),
       file(<<rec("web", "a")>>),
       file(<<rec("automation", "a")>>),
       file(<<rec("web", "b"), rec("web", "a")>>)}

InitAudit ==
  /\ regFile \in AuditRegistries
  /\ \E dir \in SkillDirs :
       /\ files = [k \in Cats \X Names |-> IF k = AuditedPath THEN dir ELSE EmptyDir]
       /\ dirs = [k \in Cats \X Names |->
                    IF k # AuditedPath \/ dir = EmptyDir THEN NoDir
                    ELSE IF dir.manifest.parses
                         THEN Parsed([version |-> DefaultVersion, desc |-> Absent])
                         ELSE BadManifest]
  /\ now = 0
  /\ last = NoOutcome
  /\ inv = [p \in Procs |-> Idle]
  /\ saved = <<>>
  /\ val = NotValidated
  /\ aud = NoAudit
  /\ ins = NoInstall
  /\ retry = NoRetry
  /\ research = NoResearch

\* audit --skill <skill>: auditSkill, then runAudit prints and exits
RunAudit(skill) ==
  /\ \E T \in TickSets(LoadReads(1)) :
       LET registry == loadRegistry(regFile, getCurrentTimestamp(now, T, 1))
           audit == auditSkill(registry, files, skill)
           shown == runAudit(audit.result)
       IN  /\ aud' = [cmd |-> "audit", skill |-> skill, result |-> audit.result,
                      reads |-> audit.reads, out |-> shown.out, exit |-> shown.exit]
           /\ now' = now + Cardinality(T)
  /\ UNCHANGED <<regFile, dirs, last, inv, saved, val, files, ins, retry, research>>

\* audit without --skill: main exits before runAudit
AuditUsage ==
  /\ aud' = [cmd |-> "usage", exit |-> 1]
  /\ UNCHANGED <<regFile, dirs, now, last, inv, saved, val, files, ins, retry, research>>

NextAudit ==
  \/ \E skill \in Names : RunAudit(skill)
  \/ AuditUsage

SpecAudit == InitAudit /\ [][NextAudit]_vars

\* ------------------------------------------------------------------------
\* The validate command
\* ------------------------------------------------------------------------
\* the files validateSkill requires in the skill directory
requiredFiles ==
  <<"index.ts", "types.ts", "utils.ts", "resilience.ts", "progress.ts",
    "mcp-config.json", "README.md">>

\* the blocks validateSkill looks at after the schema validation
advisoryBlocks == <<"runtime", "permissions", "deepAgent", "resourceProfile">>

Block == [t |-> "obj", s |-> <<>>]

\* a line of output
Log(level, text) == [level |-> level, text |-> text]

\* the loop over requiredFiles: a line for every file, and whether one is
\* missing
checkRequired(dir) ==
  [out |-> [i \in 1..Len(requiredFiles) |->
              IF requiredFiles[i] \in dir.present
              THEN Log("green", requiredFiles[i])
              ELSE Log("red", requiredFiles[i])],
   hasErrors |-> \E i \in 1..Len(requiredFiles) : requiredFiles[i] \notin dir.present]

\* the lines of the four blocks: a warning for a block that is not there
advisoryLines(config) ==
  [i \in 1..Len(advisoryBlocks) |->
     IF Truthy(config[advisoryBlocks[i]])
     THEN Log("green", advisoryBlocks[i])
     ELSE Log("yellow", advisoryBlocks[i])]

\* the try block as it would be if a manifest without runtime failed
configErrorsStrict(config) ==
  \/ validateAgainstSchema(config).threw
  \/ ~validateAgainstSchema(config).valid
  \/ ~Truthy(config.runtime)

\* what the try block makes of hasErrors for a parsed manifest: the schema
\* validation failed, or it threw and the catch set the flag
configErrors(config) ==
  \/ validateAgainstSchema(config).threw
  \/ ~validateAgainstSchema(config).valid

\* the try block: read and parse mcp-config.json, validate it, print the
\* lines of the four blocks; the catch prints the parse failure
checkConfig(dir) ==
  IF "mcp-config.json" \notin dir.present \/ ~dir.parses
  THEN [out |-> <<Log("red", "Failed to parse mcp-config.json")>>, hasErrors |-> TRUE]
  ELSE IF validateAgainstSchema(dir.config).threw
  THEN [out |-> <<Log("bold", "MCP Config Validation"),
                  Log("red", "Failed to parse mcp-config.json")>>,
        hasErrors |-> configErrors(dir.config)]
  ELSE [out |-> <<Log("bold", "MCP Config Validation"),
                  IF validateAgainstSchema(dir.config).valid
                  THEN Log("green", "MCP config passes 2026 schema validation")
                  ELSE Log("red", "MCP config schema validation failed")>>
                \o advisoryLines(dir.config),
        hasErrors |-> configErrors(dir.config)]

\* the check of the tests directory: lines only
checkTestFiles(dir) ==
  CASE ~dir.testsDir -> <<>>
    [] dir.tests = {} -> <<Log("yellow", "No test files found")>>
    [] OTHER ->
         <<Log("green", "Test files"),
           IF "security.test.ts" \in dir.tests
           THEN Log("green", "Security tests present")
           ELSE Log("yellow", "Missing security.test.ts (2026 Standard)"),
           IF "resilience.test.ts" \in dir.tests
           THEN Log("green", "Resilience tests present")
           ELSE Log("yellow", "Missing resilience.test.ts")>>

\* validateSkill once the record is found: the output and the exit status
validateSkill(dir) ==
  LET req == checkRequired(dir)
      cfg == checkConfig(dir)
      hasErrors == req.hasErrors \/ cfg.hasErrors
  IN  [out |-> req.out \o cfg.out \o checkTestFiles(dir)
               \o <<IF hasErrors THEN Log("red", "Validation failed with errors")
                     ELSE Log("green", "Skill is valid")>>,
       exit |-> IF hasErrors THEN 1 ELSE 0]

\* manifests with and without the four blocks
WithBlocks(config, blocks) ==
  [t |-> config.t, name |-> config.name, version |-> config.version,
   protocol |-> config.protocol, tools |-> config.tools,
   runtime |-> IF "runtime" \in blocks THEN Block ELSE Absent,
   permissions |-> IF "permissions" \in blocks THEN Block ELSE Absent,
   deepAgent |-> IF "deepAgent" \in blocks THEN Block ELSE Absent,
   resourceProfile |-> IF "resourceProfile" \in blocks THEN Block ELSE Absent]

BlockSets == SUBSET {advisoryBlocks[i] : i \in 1..Len(advisoryBlocks)}

CoreConfigs ==
  LET full == [t |-> "obj", name |-> Str(<<"x">>), version |-> DefaultVersion,
               protocol |-> Protocol2026, tools |-> ToolsArray(<<FullTool>>)]
  IN  {full,
       [full EXCEPT !.version = Absent],
       [full EXCEPT !.protocol = Str(<<"mcp">>)],
       [full EXCEPT !.tools = ToolsArray(<<FullTool, NullTool>>)]}

\* the skill directories given to validate
ValidatedDirs ==
  LET all == {requiredFiles[i] : i \in 1..Len(requiredFiles)}
  IN  [present : {all, all \ {"README.md"}, all \ {"mcp-config.json"}},
       parses : BOOLEAN,
       config : {WithBlocks(c, b) : c \in CoreConfigs, b \in BlockSets},
       testsDir : BOOLEAN,
       tests : {{}, {"index.test.ts"}, {"security.test.ts", "resilience.test.ts"}}]

ValidatedRegistries ==
  LET rec(cat, name) == newSkill(cat, name, Str(<<"S">>), 0)
      file(skills) == [ok |-> TRUE, doc |-> [FreshRegistry(0) EXCEPT !.skills = skills]]
  IN  {file(<<>>), file(<<rec("web", "a")>>)}

InitValidateCmd ==
  /\ regFile \in ValidatedRegistries
  /\ dirs = [k \in Cats \X Names |-> NoDir]
  /\ now = 0
  /\ last = NoOutcome
  /\ inv = [p \in Procs |-> Idle]
  /\ saved = <<>>
  /\ \E dir \in ValidatedDirs : val = [done |-> FALSE, dir |-> dir]
  /\ files = [k \in Cats \X Names |-> EmptyDir]
  /\ aud = NoAudit
  /\ ins = NoInstall
  /\ retry = NoRetry
  /\ research = NoResearch

\* validate --skill <skill>
ValidateSkill(skill) ==
  /\ ~val.done
  /\ \E T \in TickSets(LoadReads(1)) :
       LET registry == loadRegistry(regFile, getCurrentTimestamp(now, T, 1))
       IN  /\ val' = IF findSkill(registry.skills, skill) = 0
                     THEN [done |-> TRUE, dir |-> val.dir, cmd |-> "validate",
                           found |-> FALSE,
                           out |-> <<Log("red", "not found in registry")>>,
                           exit |-> 1]
                     ELSE [done |-> TRUE, dir |-> val.dir, cmd |-> "validate",
                           found |-> TRUE,
                           out |-> validateSkill(val.dir).out,
                           exit |-> validateSkill(val.dir).exit]
           /\ now' = now + Cardinality(T)
  /\ UNCHANGED <<regFile, dirs, last, inv, saved, files, aud, ins, retry, research>>

\* validate without --skill: main exits before validateSkill
ValidateUsage ==
  /\ ~val.done
  /\ val' = [done |-> TRUE, dir |-> val.dir, cmd |-> "usage", found |-> FALSE,
             out |-> <<Log("red", "--skill is required for validate")>>,
             exit |-> 1]
  /\ UNCHANGED <<regFile, dirs, now, last, inv, saved, files, aud, ins, retry, research>>

NextValidateCmd ==
  \/ \E skill \in Names : ValidateSkill(skill)
  \/ ValidateUsage

SpecValidateCmd == InitValidateCmd /\ [][NextValidateCmd]_vars

\* ------------------------------------------------------------------------
\* createSkill with dependencies, one await at a time
\* ------------------------------------------------------------------------
\* the dependencies of create --dependencies, after the split at commas
DependencyLists == {<<>>, <<"p">>, <<"p", "q">>, <<"p", "q", "p">>}

CreatedPath == <<"web", "a">>

\* an entry of the history of the invocation
Event(ev, k) == [ev |-> ev, k |-> k]

\* the dependencies whose install may be started, as they would be if the
\* installs were all started without awaiting one another
canStartAll(st, k) ==
  /\ st.pc = "installing"
  /\ \A j \in 1..Len(st.history) : st.history[j] # Event("start", k)

\* for (const dep of dependencies) { await $`bun add ${dep}` }: the install
\* of dependency k may be started when the loop is at k and no install is
\* awaited
canStart(st, k) ==
  /\ st.pc = "installing"
  /\ st.inflight = {}
  /\ k = st.i

InitInstall ==
  /\ regFile \in AuditRegistries
  /\ dirs = [k \in Cats \X Names |->
               IF k = CreatedPath
               THEN Parsed([version |-> DefaultVersion, desc |-> Str(<<"S">>)])
               ELSE NoDir]
  /\ now = 0
  /\ last = NoOutcome
  /\ inv = [p \in Procs |-> Idle]
  /\ saved = <<>>
  /\ val = NotValidated
  /\ files = [k \in Cats \X Names |-> EmptyDir]
  /\ aud = NoAudit
  /\ \E dependencies \in DependencyLists :
       ins = [pc |-> "written", dependencies |-> dependencies, i |-> 1,
              inflight |-> {}, history |-> <<>>]
  /\ retry = NoRetry
  /\ research = NoResearch

\* createSkill after the files are written: installDependencies is called
\* when there is a dependency
CallInstall ==
  /\ ins.pc = "written"
  /\ ins' = IF Len(ins.dependencies) > 0
            THEN [ins EXCEPT !.pc = "installing",
                             !.history = Append(@, Event("call", 0))]
            ELSE [ins EXCEPT !.pc = "installed"]
  /\ UNCHANGED <<regFile, dirs, now, last, inv, saved, val, files, aud, retry, research>>

\* bun add of dependency k is started
StartInstall(k) ==
  /\ k \in 1..Len(ins.dependencies)
  /\ canStart(ins, k)
  /\ ins' = [ins EXCEPT !.inflight = @ \cup {k},
                        !.history = Append(@, Event("start", k))]
  /\ UNCHANGED <<regFile, dirs, now, last, inv, saved, val, files, aud, retry, research>>

\* bun add of dependency k exits with 0: the loop goes on
InstallDone(k) ==
  /\ ins.pc = "installing"
  /\ k \in ins.inflight
  /\ ins' = [ins EXCEPT !.inflight = @ \ {k}, !.i = k + 1,
                        !.history = Append(@, Event("done", k))]
  /\ UNCHANGED <<regFile, dirs, now, last, inv, saved, val, files, aud, retry, research>>

\* bun add of dependency k fails: the await throws into the catch around
\* the loop, which prints the warning; installDependencies returns
InstallFailed(k) ==
  /\ ins.pc = "installing"
  /\ k \in ins.inflight
  /\ ins' = [ins EXCEPT !.inflight = @ \ {k}, !.pc = "installed",
                        !.history = @ \o <<Event("failed", k), Event("return", 0)>>]
  /\ UNCHANGED <<regFile, dirs, now, last, inv, saved, val, files, aud, retry, research>>

\* the loop is over: installDependencies returns
InstallReturn ==
  /\ ins.pc = "installing"
  /\ ins.inflight = {}
  /\ ins.i > Len(ins.dependencies)
  /\ ins' = [ins EXCEPT !.pc = "installed",
                        !.history = Append(@, Event("return", 0))]
  /\ UNCHANGED <<regFile, dirs, now, last, inv, saved, val, files, aud, retry, research>>

\* the rest of createSkill: loadRegistry, push, saveRegistry
AddToRegistry ==
  /\ ins.pc = "installed"
  /\ \E T \in TickSets({1, 3} \cup LoadReads(2)) :
       LET timestamp == getCurrentTimestamp(now, T, 1)
           registry  == loadRegistry(regFile, getCurrentTimestamp(now, T, 2))
           pushed    == [registry EXCEPT
                           !.skills = Append(@, newSkill(CreatedPath[1], CreatedPath[2],
                                                         Str(<<"S">>), timestamp))]
       IN  /\ regFile' = saveRegistry(pushed, getCurrentTimestamp(now, T, 3))
           /\ now' = now + Cardinality(T)
  /\ ins' = [ins EXCEPT !.pc = "saved", !.history = Append(@, Event("save", 0))]
  /\ last' = Outcome("create", 0, TRUE)
  /\ UNCHANGED <<dirs, inv, saved, val, files, aud, retry, research>>

NextInstall ==
  \/ CallInstall
  \/ \E k \in 1..Len(ins.dependencies) : StartInstall(k)
  \/ \E k \in 1..Len(ins.dependencies) : InstallDone(k)
  \/ \E k \in 1..Len(ins.dependencies) : InstallFailed(k)
  \/ InstallReturn
  \/ AddToRegistry

SpecInstall == InitInstall /\ [][NextInstall]_vars

\* ------------------------------------------------------------------------
\* withRetry (resilience.ts)
\* ------------------------------------------------------------------------
\* the largest maxRetries given to withRetry
MaxRetries == 2

\* Math.pow(2, n)
RECURSIVE Pow2(_)
Pow2(n) == IF n <= 0 THEN 1 ELSE 2 * Pow2(n - 1)

\* the time waited after the failure of attempt number attempt
waitTime(backoff, delay, attempt) ==
  IF backoff = "exponential" THEN delay * Pow2(attempt) ELSE delay

\* lastError = error instanceof Error ? error : new Error(String(error)):
\* the error of call number call, wrapped when what was thrown is no Error
Caught(call, isError) == [call |-> call, wrapped |-> ~isError]

Undefined == [call |-> 0, wrapped |-> FALSE]

\* options: maxRetries is input.options?.retries ?? 3 in execute
RetryOptions ==
  [maxRetries : (-1)..MaxRetries, delay : {1, 3}, backoff : {"fixed", "exponential"}]

InitRetry ==
  /\ regFile = [ok |-> TRUE, doc |-> FreshRegistry(0)]
  /\ dirs = [k \in Cats \X Names |-> NoDir]
  /\ now = 0
  /\ last = NoOutcome
  /\ inv = [p \in Procs |-> Idle]
  /\ saved = <<>>
  /\ val = NotValidated
  /\ files = [k \in Cats \X Names |-> EmptyDir]
  /\ aud = NoAudit
  /\ ins = NoInstall
  /\ \E options \in RetryOptions :
       retry = [pc |-> "loop", options |-> options, attempt |-> 0, calls |-> 0,
                inflight |-> 0, waits |-> <<>>, lastError |-> Undefined,
                result |-> 0]
  /\ research = NoResearch

\* attempt <= maxRetries: fn is called
CallFn ==
  /\ retry.pc = "loop"
  /\ retry.attempt <= retry.options.maxRetries
  /\ retry' = [retry EXCEPT !.pc = "calling", !.calls = @ + 1, !.inflight = @ + 1]
  /\ UNCHANGED <<regFile, dirs, now, last, inv, saved, val, files, aud, ins, research>>

\* fn resolves: return await fn()
FnResolves ==
  /\ retry.pc = "calling"
  /\ retry' = [retry EXCEPT !.pc = "returned", !.inflight = @ - 1,
                            !.result = retry.calls]
  /\ UNCHANGED <<regFile, dirs, now, last, inv, saved, val, files, aud, ins, research>>

\* fn throws or rejects: the catch keeps the error and, when an attempt is
\* left, starts the timer
FnRejects(isError) ==
  /\ retry.pc = "calling"
  /\ retry' = IF retry.attempt < retry.options.maxRetries
              THEN [retry EXCEPT
                      !.pc = "waiting", !.inflight = @ - 1,
                      !.lastError = Caught(retry.calls, isError),
                      !.waits = Append(@, waitTime(retry.options.backoff,
                                                   retry.options.delay,
                                                   retry.attempt))]
              ELSE [retry EXCEPT
                      !.pc = "loop", !.inflight = @ - 1,
                      !.lastError = Caught(retry.calls, isError),
                      !.attempt = @ + 1]
  /\ UNCHANGED <<regFile, dirs, now, last, inv, saved, val, files, aud, ins, research>>

\* the timer fires: attempt++
TimerFires ==
  /\ retry.pc = "waiting"
  /\ retry' = [retry EXCEPT !.pc = "loop", !.attempt = @ + 1]
  /\ UNCHANGED <<regFile, dirs, now, last, inv, saved, val, files, aud, ins, research>>

\* the loop is over: throw lastError
ThrowLast ==
  /\ retry.pc = "loop"
  /\ retry.attempt > retry.options.maxRetries
  /\ retry' = [retry EXCEPT !.pc = "rejected"]
  /\ UNCHANGED <<regFile, dirs, now, last, inv, saved, val, files, aud, ins, research>>

NextRetry ==
  \/ CallFn
  \/ FnResolves
  \/ \E isError \in BOOLEAN : FnRejects(isError)
  \/ TimerFires
  \/ ThrowLast

SpecRetry == InitRetry /\ [][NextRetry]_vars

\* ------------------------------------------------------------------------
\* openclaw-deep-research: validateInput and execute.  A query is its
\* length and its whitespace-separated terms; a relevance is counted in
\* hundredths.
\* ------------------------------------------------------------------------
Query(len, terms) == [isString |-> TRUE, len |-> len, terms |-> terms]

\* an option that is not given, and one that is given with value v
NotGiven == [given |-> FALSE, v |-> 0]
Given(v) == [given |-> TRUE, v |-> v]

\* option ?? default in a destructuring: the default stands for undefined
OrDefault(option, default) == IF option.given THEN option.v ELSE default

\* input.options?.depth && (depth < 1 || depth > 5)
depthOutOfRange(depth) ==
  (depth.given /\ depth.v # 0) /\ (depth.v < 1 \/ depth.v > 5)

\* validateInput: TRUE when it throws
validateInput(input) ==
  \/ input.query.len = 0 \/ ~input.query.isString
  \/ input.query.len < 2
  \/ input.query.len > 500
  \/ depthOutOfRange(input.options.depth)

\* generateRelatedQueries(query): four queries around the query
generateRelatedQueries(query) ==
  <<Query(query.len + 8, <<"what", "is">> \o query.terms),
    Query(query.len + 7, <<"how", "to">> \o query.terms),
    Query(query.len + 9, query.terms \o <<"tutorial">>),
    Query(query.len + 15, query.terms \o <<"best", "practices">>)>>

\* Array.prototype.slice(0, end)
slice(seq, end) ==
  LET e == IF end < 0 THEN Len(seq) + end ELSE end
  IN  IF e <= 0 THEN <<>> ELSE SubSeq(seq, 1, IF e > Len(seq) THEN Len(seq) ELSE e)

\* Math.ceil(a / b) for b > 0
ceilDiv(a, b) == -((-a) \div b)

\* calculateRelevance: 0.3 for every term of the query the title contains,
\* 0.1 for every term the snippet contains, at most 1
RECURSIVE score(_, _, _)
score(terms, inTitle, inSnippet) ==
  IF terms = <<>> THEN 0
  ELSE (IF Head(terms) \in inTitle THEN 30 ELSE 0)
       + (IF Head(terms) \in inSnippet THEN 10 ELSE 0)
       + score(Tail(terms), inTitle, inSnippet)

calculateRelevance(inSnippet, query, inTitle) ==
  LET total == score(query.terms, inTitle, inSnippet)
  IN  IF total > 100 THEN 100 ELSE total

\* transformResults: one result for every raw result of the API
transformResults(rawResults, query) ==
  [k \in 1..Len(rawResults) |->
     [url |-> [src |-> "api", d |-> rawResults[k].url, q |-> 0],
      relevance |-> calculateRelevance(rawResults[k].inSnippet, query,
                                       rawResults[k].inTitle)]]

\* simulateResults(query, maxResults): Array.from({length: maxResults}),
\* result i (from 0) on domain i % 5 with relevance 0.9 - i * 0.08; qid
\* tells the queries apart in the URL
simulateResults(qid, maxResults) ==
  [k \in 1..(IF maxResults > 0 THEN maxResults ELSE 0) |->
     [url |-> [src |-> "sim", d |-> (k - 1) % 5, q |-> qid],
      relevance |-> 90 - (k - 1) * 8]]

\* deduplicateResults as it would be if it kept everything
deduplicateNone(results) == results

\* deduplicateResults: the first result of every URL
deduplicateResults(results) ==
  LET first == {k \in 1..Len(results) :
                  \A j \in 1..(k - 1) : results[j].url # results[k].url}
  IN  [p \in 1..Cardinality(first) |->
         results[CHOOSE k \in first : Cardinality({j \in first : j <= k}) = p]]

\* results.sort((a, b) => b.relevance - a.relevance): position of the
\* result at index k after the stable sort
rank(results, k) ==
  Cardinality({j \in 1..Len(results) :
                 \/ results[j].relevance > results[k].relevance
                 \/ results[j].relevance = results[k].relevance /\ j <= k})

sortByRelevance(results) ==
  [p \in 1..Len(results) |->
     results[CHOOSE k \in 1..Len(results) : rank(results, k) = p]]

\* the queries deepResearch executes
researchQueries(input) ==
  <<input.query>>
  \o (IF OrDefault(input.options.includeRelated, 1) = 1
      THEN slice(generateRelatedQueries(input.query), OrDefault(input.options.depth, 2))
      ELSE <<>>)

\* maxResults of one search: Math.ceil(maxResults / queries.length)
perQuery(input) ==
  ceilDiv(OrDefault(input.options.maxResults, 10), Len(researchQueries(input)))

\* the end of deepResearch: deduplicate, sort, limit
finalResults(input, allResults) ==
  slice(sortByRelevance(deduplicateResults(allResults)),
        OrDefault(input.options.maxResults, 10))

\* what the OpenClaw API may answer to a search
RawResults ==
  {<<>>,
   <<[url |-> 1, inTitle |-> {"mcp", "what", "is"}, inSnippet |-> {"mcp"}],
     [url |-> 2, inTitle |-> {}, inSnippet |-> {"mcp", "protocol"}],
     [url |-> 1, inTitle |-> {"mcp", "protocol", "2026", "best"}, inSnippet |-> {}]>>}

\* the inputs of validateInput and execute
ResearchQueries ==
  {Query(0, <<>>), Query(1, <<"a">>), Query(2, <<"ab">>),
   Query(17, <<"mcp", "protocol", "2026">>), Query(500, <<"mcp">>),
   Query(501, <<"mcp">>)}

ResearchInputs ==
  [query : ResearchQueries,
   options : [depth : {NotGiven, Given(-1), Given(0), Given(1), Given(5), Given(6)},
              includeRelated : {NotGiven, Given(0)},
              maxResults : {NotGiven, Given(-1), Given(0), Given(3), Given(13)}]]

InitResearch ==
  /\ regFile = [ok |-> TRUE, doc |-> FreshRegistry(0)]
  /\ dirs = [k \in Cats \X Names |-> NoDir]
  /\ now = 0
  /\ last = NoOutcome
  /\ inv = [p \in Procs |-> Idle]
  /\ saved = <<>>
  /\ val = NotValidated
  /\ files = [k \in Cats \X Names |-> EmptyDir]
  /\ aud = NoAudit
  /\ ins = NoInstall
  /\ retry = NoRetry
  /\ \E input \in ResearchInputs :
       research = [pc |-> "called", input |-> input, threw |-> FALSE, q |-> 1,
                   simulated |-> FALSE, allResults |-> <<>>, results |-> <<>>]

\* execute: validateInput(input)
ValidateInput ==
  /\ research.pc = "called"
  /\ research' = IF validateInput(research.input)
                 THEN [research EXCEPT !.pc = "rejected", !.threw = TRUE]
                 ELSE [research EXCEPT !.pc = "searching"]
  /\ UNCHANGED <<regFile, dirs, now, last, inv, saved, val, files, aud, ins, retry>>

\* search of query number q answered by the API
SearchApi(rawResults) ==
  /\ research.pc = "searching"
  /\ research.q <= Len(researchQueries(research.input))
  /\ research' = [research EXCEPT
                    !.q = @ + 1,
                    !.allResults = @ \o transformResults(rawResults,
                                        researchQueries(research.input)[research.q])]
  /\ UNCHANGED <<regFile, dirs, now, last, inv, saved, val, files, aud, ins, retry>>

\* search of query number q when the request fails: simulated results
SearchFallback ==
  /\ research.pc = "searching"
  /\ research.q <= Len(researchQueries(research.input))
  /\ research' = [research EXCEPT
                    !.q = @ + 1,
                    !.simulated = TRUE,
                    !.allResults = @ \o simulateResults(research.q,
                                                        perQuery(research.input))]
  /\ UNCHANGED <<regFile, dirs, now, last, inv, saved, val, files, aud, ins, retry>>

\* all searches are done: execute returns the results
ReturnResults ==
  /\ research.pc = "searching"
  /\ research.q > Len(researchQueries(research.input))
  /\ research' = [research EXCEPT
                    !.pc = "returned",
                    !.results = finalResults(research.input, research.allResults)]
  /\ UNCHANGED <<regFile, dirs, now, last, inv, saved, val, files, aud, ins, retry>>

NextResearch ==
  \/ ValidateInput
  \/ \E rawResults \in RawResults : SearchApi(rawResults)
  \/ SearchFallback
  \/ ReturnResults

SpecResearch == InitResearch /\ [][NextResearch]_vars

\* ------------------------------------------------------------------------
\* Properties of the sequential commands
\* ------------------------------------------------------------------------
\* the records a command finds when it loads the file
Loaded(file) == IF file.ok THEN file.doc.skills ELSE <<>>

RecNames(skills) == {skills[i].name : i \in 1..Len(skills)}

WriteCmds == {"create", "registerAll", "registerOne"}

\* the scanned candidates whose manifest parses (dirs is the tree the last
\* register command saw: register never changes it)
Parsing == {i \in 1..Len(scanLocalSkills(dirs)) :
              dirs[<<scanLocalSkills(dirs)[i].category, scanLocalSkills(dirs)[i].name>>].kind = "ok"}

\* C1: no two records of a persisted registry document have the same name.
C1_UniqueNames ==
  (regFile.ok /\ last.cmd \in WriteCmds) =>
    \A i, j \in 1..Len(regFile.doc.skills) :
      i # j => regFile.doc.skills[i].name # regFile.doc.skills[j].name

\* C2: a register command that finds a record in the registry leaves the
\* record in place with its created timestamp as it was persisted.
C2_CreatedPreserved ==
  (last.cmd \in {"registerAll", "registerOne"} /\ last.wrote) =>
    \A i \in 1..Len(Loaded(last.pre)) :
      /\ i <= Len(regFile.doc.skills)
      /\ regFile.doc.skills[i].name = Loaded(last.pre)[i].name
      /\ regFile.doc.skills[i].created = Loaded(last.pre)[i].created

\* a register command has overwritten a record at a time later than the
\* record's creation
C2_Witness ==
  /\ last.cmd \in {"registerAll", "registerOne"}
  /\ \E i \in 1..Len(Loaded(last.pre)) :
       /\ regFile.doc.skills[i] # Loaded(last.pre)[i]
       /\ regFile.doc.skills[i].updated > Loaded(last.pre)[i].created

\* C3: every skill name in the registry file before a command is in the file
\* after the command, whatever the state of the file.
C3_NeverDeletes ==
  last.cmd \in WriteCmds =>
    RecNames(last.pre.doc.skills) \subseteq RecNames(regFile.doc.skills)

\* C4: every record written by create or register has a major.minor.patch
\* version and a status of the enum.
C4_VersionAndStatus ==
  (regFile.ok /\ last.cmd \in WriteCmds /\ last.wrote) =>
    \A i \in 1..Len(regFile.doc.skills) :
      /\ SemverPattern(regFile.doc.skills[i].version)
      /\ regFile.doc.skills[i].status \in StatusEnum

\* C5: a second register --all in a row over the same manifests leaves every
\* record as the first run left it, but for updated, and adds none.
C5_Idempotent ==
  (last.cmd = "registerAll" /\ last.again) =>
    /\ last.pre.ok
    /\ Len(regFile.doc.skills) = Len(last.pre.doc.skills)
    /\ \A i \in 1..Len(regFile.doc.skills) :
         [regFile.doc.skills[i] EXCEPT !.updated = 0]
           = [last.pre.doc.skills[i] EXCEPT !.updated = 0]

\* the second run has overwritten two candidates' records at a later time
C5_Witness ==
  /\ last.cmd = "registerAll" /\ last.again
  /\ last.updated >= 2
  /\ \E i \in 1..Len(regFile.doc.skills) :
       regFile.doc.skills[i].updated > last.pre.doc.skills[i].updated

\* every scanned candidate has a well-formed manifest
AllValid ==
  /\ Parsing = 1..Len(scanLocalSkills(dirs))
  /\ \A i \in Parsing :
       SemverPattern(dirs[<<scanLocalSkills(dirs)[i].category,
                            scanLocalSkills(dirs)[i].name>>].version)

\* C6: register --all on an empty registry over N valid manifests leaves N
\* records, each with created = updated, whatever the clock reads.
C6_FirstRun ==
  (last.cmd = "registerAll" /\ Loaded(last.pre) = <<>> /\ AllValid) =>
    /\ Len(regFile.doc.skills) = Len(scanLocalSkills(dirs))
    /\ \A i \in 1..Len(regFile.doc.skills) :
         regFile.doc.skills[i].created = regFile.doc.skills[i].updated

\* the names all of whose scanned candidates have a manifest that does not
\* parse
SkippedNames ==
  {n \in Names :
     /\ \E i \in 1..Len(scanLocalSkills(dirs)) : scanLocalSkills(dirs)[i].name = n
     /\ \A i \in Parsing : scanLocalSkills(dirs)[i].name # n}

\* the last candidate in scan order, among those that parse, with the name of
\* candidate i
LastParsing(i) ==
  CHOOSE k \in Parsing :
    /\ scanLocalSkills(dirs)[k].name = scanLocalSkills(dirs)[i].name
    /\ \A j \in Parsing :
         scanLocalSkills(dirs)[j].name = scanLocalSkills(dirs)[i].name => j <= k

\* C7: register --all skips a candidate whose manifest does not parse: it
\* adds no record for it and leaves a record with its name as it was; every
\* candidate that parses is still processed, in scan order, and the registry
\* is saved.
C7_SkipAndContinue ==
  last.cmd = "registerAll" =>
    /\ last.wrote /\ regFile.ok /\ regFile.doc.lastUpdated = now
    /\ Len(regFile.doc.skills) >= Len(Loaded(last.pre))
    /\ \A j \in 1..Len(regFile.doc.skills) :
         regFile.doc.skills[j].name \in SkippedNames =>
           /\ j <= Len(Loaded(last.pre))
           /\ regFile.doc.skills[j] = Loaded(last.pre)[j]
    /\ \A i \in Parsing :
         LET c == scanLocalSkills(dirs)[LastParsing(i)]
             j == findIndex(regFile.doc.skills, c.name)
         IN  /\ j > 0
             /\ regFile.doc.skills[j].category = c.category
             /\ regFile.doc.skills[j].version
                  = OrElse(dirs[<<c.category, c.name>>].version, DefaultVersion)

\* register --all has met an unparseable manifest whose name has a record,
\* and after it in scan order a candidate that parses
C7_Witness ==
  /\ last.cmd = "registerAll"
  /\ \E n \in SkippedNames : n \in RecNames(Loaded(last.pre))
  /\ \E i \in Parsing : \E k \in 1..(i - 1) : k \notin Parsing

\* C8: the counts register --all prints: registered is the number of records
\* appended, updated the number of overwrites of an existing record, their
\* sum the number of candidates that parsed, total the count before plus
\* registered.
C8_Counts ==
  (last.cmd = "registerAll" /\ last.reported) =>
    /\ last.registered = Len(regFile.doc.skills) - Len(Loaded(last.pre))
    /\ last.updated =
         Cardinality({i \in Parsing :
                        \/ scanLocalSkills(dirs)[i].name \in RecNames(Loaded(last.pre))
                        \/ \E k \in Parsing :
                             /\ k < i
                             /\ scanLocalSkills(dirs)[k].name = scanLocalSkills(dirs)[i].name})
    /\ last.registered + last.updated = Cardinality(Parsing)
    /\ last.total = Len(Loaded(last.pre)) + last.registered

\* two candidates of one name under two categories: the first is appended,
\* the second overwrites it
C8_Witness ==
  /\ last.cmd = "registerAll" /\ last.reported
  /\ last.registered = 1 /\ last.updated = 1
  /\ Len(regFile.doc.skills) = 1

\* the scanned candidates with the name given to register --skill
Named == {i \in 1..Len(scanLocalSkills(dirs)) : scanLocalSkills(dirs)[i].name = last.name}

\* C9: register --skill with a name that was not scanned, or whose manifest
\* does not parse, exits non-zero and does not write the registry file.
C9_FailedRegisterOne ==
  (/\ last.cmd = "registerOne"
   /\ \/ Named = {}
      \/ \E i \in Named : /\ \A j \in Named : i <= j
                          /\ i \notin Parsing) =>
    /\ last.exit # 0
    /\ ~last.wrote
    /\ regFile = last.pre

\* C29: whenever register --skill ends with a non-zero exit status, for
\* any cause (the name was not scanned, the manifest is unreadable, or a
\* step after the record was derived throws, such as the update of the
\* README table), it has not written the registry file, which is as it was
C29_FailedRegisterNoWrite ==
  (last.cmd = "registerOne" /\ last.exit # 0) =>
    /\ ~last.wrote
    /\ regFile = last.pre

\* register --skill has failed on an unparseable manifest while the registry
\* held records
C9_Witness ==
  /\ last.cmd = "registerOne"
  /\ last.exit # 0
  /\ Named # {}
  /\ \A i \in Named : i \notin Parsing
  /\ Len(Loaded(last.pre)) > 0

\* ------------------------------------------------------------------------
\* Properties of invocations that run at the same time
\* ------------------------------------------------------------------------
\* p and q both loaded before either saved, p saved before q, and q's save
\* is the last one so far
Overlapped(p, q) ==
  /\ p # q
  /\ inv[p].pc = "saved" /\ inv[q].pc = "saved"
  /\ inv[p].seen = inv[q].seen
  /\ Len(saved) = inv[q].seen + 2
  /\ saved[Len(saved) - 1] = p /\ saved[Len(saved)] = q

\* C10: when two invocations both load before either saves, the file ends as
\* the registry in memory of the one that saves last, and a record only the
\* other one appended is not in it.
C10_LastSaveWins ==
  \A p, q \in Procs :
    Overlapped(p, q) =>
      /\ regFile.ok
      /\ regFile.doc.skills = inv[q].mem.skills
      /\ \A n \in RecNames(inv[p].mem.skills) \ RecNames(inv[q].mem.skills) :
           n \notin RecNames(regFile.doc.skills)

\* the invocation that saved first had appended a record the other one does
\* not hold
C10_Witness ==
  \E p, q \in Procs :
    /\ Overlapped(p, q)
    /\ RecNames(inv[p].mem.skills) \ RecNames(inv[q].mem.skills) # {}

\* ------------------------------------------------------------------------
\* Properties of the store
\* ------------------------------------------------------------------------
\* the invocation whose write was begun last
Writer == saved[Len(saved)]

\* C11: save is all-or-nothing: while a save is under way, and after a save
\* that failed or was interrupted, the registry file is either the complete
\* document that was there before the save or the complete new document
C11_AllOrNothing ==
  (Len(saved) > 0 /\ inv[Writer].pc \in {"writing", "killed"}) =>
    \/ regFile = last.pre
    \/ regFile = saveRegistry(inv[Writer].mem, inv[Writer].mem.lastUpdated)

\* C12: load never raises; with the file absent or unparseable it returns
\* an empty skills list, the four categories and lastUpdated = the current
\* time; with a file that parses it returns the document unchanged
C12_LoadFallback ==
  \A p \in Procs :
    inv[p].pc = "listed" =>
      /\ last.exit = 0
      /\ last.pre.ok => inv[p].mem = last.pre.doc
      /\ ~last.pre.ok =>
           inv[p].mem = [lastUpdated |-> now, skills |-> <<>>,
                         categories |-> <<"web", "code", "data", "automation">>]

\* a list command run on a file that an interrupted save left without text,
\* after the clock has moved
C12_Witness ==
  \E p \in Procs :
    /\ inv[p].pc = "listed"
    /\ ~last.pre.ok
    /\ now > 0
    /\ \E q \in Procs : inv[q].pc = "killed"

\* a list command run on a file that holds records
C12_WitnessParsed ==
  \E p \in Procs :
    /\ inv[p].pc = "listed"
    /\ last.pre.ok
    /\ Len(last.pre.doc.skills) > 0

\* ------------------------------------------------------------------------
\* Properties of the validator
\* ------------------------------------------------------------------------
ErrorSet(result) == {result.errors[i] : i \in 1..Len(result.errors)}

\* key f is in the manifest
Present(config, f) == config[f].t # "absent"

\* a manifest with all required fields, a semver version, the protocol
\* constant and one fully specified tool
WellFormed ==
  [t |-> "obj", name |-> Str(<<"x">>), version |-> DefaultVersion,
   protocol |-> Protocol2026, tools |-> ToolsArray(<<FullTool>>)]

\* the errors of the rules a manifest violates: a required key that is
\* absent; a name that is not a string; a version that is not a string
\* matching the pattern; a protocol other than the constant; tools that are
\* not an array; a tool without name, description or inputSchema
RuleErrors(config) ==
  {ErrMissing(f) : f \in {g \in {"name", "version", "protocol", "tools"} :
                            ~Present(config, g)}}
  \cup (IF Present(config, "name") /\ config.name.t # "str" THEN {ErrName} ELSE {})
  \cup (IF Present(config, "version") /\ ~SemverPattern(config.version)
        THEN {ErrVersion(config.version)} ELSE {})
  \cup (IF Present(config, "protocol") /\ config.protocol # Protocol2026
        THEN {ErrProtocol(config.protocol)} ELSE {})
  \cup (IF Present(config, "tools") /\ config.tools.t # "arr" THEN {ErrTools} ELSE {})
  \cup (IF config.tools.t = "arr"
        THEN {ErrTool(i - 1, f) : <<i, f>> \in
                {x \in (1..Len(config.tools.items)) \X {"name", "description", "inputSchema"} :
                   config.tools.items[x[1]][x[2]].t = "absent"}}
        ELSE {})

\* C18: for every manifest (a parsed JSON object) validate returns a result
\* whose errors are one entry for every rule the manifest violates and no
\* other entry, and valid is true exactly when there is no error
C18_AllErrorsReported ==
  (val.done /\ val.config.t = "obj") =>
    /\ ~val.result.threw
    /\ ErrorSet(val.result) = RuleErrors(val.config)
    /\ Len(val.result.errors) = Cardinality(ErrorSet(val.result))
    /\ val.result.valid <=> val.result.errors = <<>>

\* C19: the errors validate returns contain the missing-field error of f
\* exactly when key f is absent, and a well-formed manifest from which only
\* version is taken away has exactly the one error Missing required field:
\* "version"
C19_MissingRequired ==
  (val.done /\ val.config.t = "obj" /\ ~val.result.threw) =>
    /\ \A f \in {"name", "version", "protocol", "tools"} :
         ErrMissing(f) \in ErrorSet(val.result) <=> ~Present(val.config, f)
    /\ val.config = [WellFormed EXCEPT !.version = Absent]
         => val.result.errors = <<ErrMissing("version")>>

\* a well-formed manifest without version has been validated
C19_Witness ==
  /\ val.done
  /\ val.config = [WellFormed EXCEPT !.version = Absent]
  /\ ~val.result.valid

\* C20: when the version key is present, whatever its value, validate
\* reports the version-format error naming the value and returns valid =
\* false, unless the value is a string that matches the pattern
C20_VersionFormat ==
  (val.done /\ val.config.t = "obj" /\ Present(val.config, "version")
            /\ ~SemverPattern(val.config.version)) =>
    /\ ~val.result.valid
    /\ ErrVersion(val.config.version) \in ErrorSet(val.result)

\* C21: when the protocol key is present with any value other than
\* "mcp-2026", the empty string included, validate reports the protocol
\* mismatch naming the value and returns valid = false
C21_ProtocolMismatch ==
  (val.done /\ val.config.t = "obj" /\ ~val.result.threw
            /\ Present(val.config, "protocol")
            /\ val.config.protocol # Protocol2026) =>
    /\ ~val.result.valid
    /\ ErrProtocol(val.config.protocol) \in ErrorSet(val.result)

\* element el of tools carries field f: it is an object with the key, and
\* for inputSchema the value is an object
Carries(el, f) ==
  /\ el.t = "obj"
  /\ el[f].t # "absent"
  /\ f = "inputSchema" => el[f].t = "obj"

\* C22: when the tools key is present, a value that is not an array gives
\* the error that tools must be an array, and an array gives, for every
\* index i and every field of name, description, inputSchema that element
\* i does not carry, the error Tool i: missing "field", whatever the kind
\* of the element
C22_ToolsChecked ==
  (val.done /\ val.config.t = "obj" /\ Present(val.config, "tools")) =>
    /\ ~val.result.threw
    /\ val.config.tools.t # "arr" => ErrTools \in ErrorSet(val.result)
    /\ val.config.tools.t = "arr" =>
         \A i \in 1..Len(val.config.tools.items) :
           \A f \in {"name", "description", "inputSchema"} :
             ~Carries(val.config.tools.items[i], f)
               => ErrTool(i - 1, f) \in ErrorSet(val.result)

\* the directory with the blocks of its manifest replaced by the set blocks
Sibling(dir, blocks) == [dir EXCEPT !.config = WithBlocks(dir.config, blocks)]

\* C23: manifests that differ only in which of runtime, permissions,
\* deepAgent and resourceProfile they have get the same valid flag and the
\* same errors from validateAgainstSchema, and the validate command ends
\* with the same exit status for them; a block that is not there gives a
\* yellow line, and a well-formed skill without any of them exits with 0
C23_AdvisoryBlocks ==
  (val.done /\ val.cmd = "validate" /\ val.found) =>
    /\ \A blocks \in BlockSets :
         /\ validateAgainstSchema(WithBlocks(val.dir.config, blocks))
              = validateAgainstSchema(val.dir.config)
         /\ validateSkill(Sibling(val.dir, blocks)).exit = val.exit
    /\ \A i \in 1..Len(advisoryBlocks) :
         (/\ "mcp-config.json" \in val.dir.present
          /\ val.dir.parses
          /\ ~validateAgainstSchema(val.dir.config).threw
          /\ val.dir.config[advisoryBlocks[i]] = Absent)
           => \E k \in 1..Len(val.out) : val.out[k] = Log("yellow", advisoryBlocks[i])
    /\ (/\ Len(requiredFiles) = Cardinality(val.dir.present)
        /\ val.dir.parses
        /\ validateAgainstSchema(val.dir.config).valid) => val.exit = 0

\* a well-formed skill whose manifest has none of the four blocks and which
\* has no tests directory has been validated and exits with 0
C23_Witness ==
  /\ val.done /\ val.cmd = "validate" /\ val.found
  /\ val.dir.config = WithBlocks(WellFormed, {})
  /\ val.dir.parses
  /\ Len(requiredFiles) = Cardinality(val.dir.present)
  /\ ~val.dir.testsDir
  /\ val.exit = 0
  /\ Cardinality({k \in 1..Len(val.out) : val.out[k].level = "yellow"}) = 4

\* ------------------------------------------------------------------------
\* Properties of the installs
\* ------------------------------------------------------------------------
\* the positions of event e in the history
Positions(e) == {j \in 1..Len(ins.history) : ins.history[j] = e}

\* the dependencies whose install was started, in the order of the starts
StartedInstalls ==
  SelectSeq(ins.history, LAMBDA e : e.ev = "start")

\* C24: the installs are started one at a time in the order of the
\* declaration: the k-th start is that of dependency k, it comes after the
\* completion of dependency k - 1, at most one install is in flight, and
\* the registry is written only after installDependencies has returned
C24_OneAtATime ==
  ins.pc # "none" =>
    /\ Cardinality(ins.inflight) <= 1
    /\ \A j \in 1..Len(StartedInstalls) : StartedInstalls[j].k = j
    /\ \A k \in 2..Len(ins.dependencies) :
         \A s \in Positions(Event("start", k)) :
           \E d \in Positions(Event("done", k - 1)) : d < s
    /\ \A s \in Positions(Event("save", 0)) :
         /\ ins.inflight = {}
         /\ Len(ins.dependencies) > 0
              => \E r \in Positions(Event("return", 0)) : r < s

\* three dependencies were installed one after the other and the registry
\* was written
C24_Witness ==
  /\ ins.pc = "saved"
  /\ Len(ins.dependencies) = 3
  /\ Len(StartedInstalls) = 3
  /\ \E i \in 1..Len(regFile.doc.skills) : regFile.doc.skills[i].name = CreatedPath[2]

\* C25: when createSkill has written the registry, every declared
\* dependency was attempted exactly once, whatever the outcome of the
\* earlier installs, and a failed install was not thrown further: the
\* skill is in the registry
C25_SiblingsAttempted ==
  ins.pc = "saved" =>
    /\ \A k \in 1..Len(ins.dependencies) :
         Cardinality(Positions(Event("start", k))) = 1
    /\ \E i \in 1..Len(regFile.doc.skills) : regFile.doc.skills[i].name = CreatedPath[2]

\* ------------------------------------------------------------------------
\* Properties of withRetry
\* ------------------------------------------------------------------------
\* withRetry has settled
Settled == retry.pc \in {"returned", "rejected"}

\* C26: fn is called one call at a time, at least once and at most
\* maxRetries + 1 times; the result is that of the first call that
\* succeeds, which is the last call made; when all maxRetries + 1 calls
\* fail the rejection is the error of the last call; a wait of delay, or of
\* delay * 2^attempt, follows every failed call but the last one; the loop
\* counter never passes maxRetries + 1
C26_Retry ==
  retry.pc # "none" =>
    /\ retry.inflight <= 1
    /\ retry.calls <= retry.options.maxRetries + 1
    /\ Settled => retry.calls >= 1
    /\ retry.pc = "returned" => retry.result = retry.calls
    /\ retry.pc = "rejected" =>
         /\ retry.calls = retry.options.maxRetries + 1
         /\ retry.lastError.call = retry.calls
         /\ Len(retry.waits) = retry.calls - 1
    /\ Len(retry.waits) <= retry.calls
    /\ \A j \in 1..Len(retry.waits) :
         retry.waits[j] = IF retry.options.backoff = "exponential"
                          THEN retry.options.delay * (2 ^ (j - 1))
                          ELSE retry.options.delay
    /\ retry.attempt <= retry.options.maxRetries + 1

\* ------------------------------------------------------------------------
\* Properties of the deep-research skill
\* ------------------------------------------------------------------------
\* C27: every result execute returns has a relevance between 0 and 1 (0 and
\* 100 hundredths), whatever the options and whether the results come from
\* the API or from the simulated fallback
C27_RelevanceRange ==
  research.pc = "returned" =>
    \A k \in 1..Len(research.results) :
      /\ research.results[k].relevance >= 0
      /\ research.results[k].relevance <= 100

\* execute returned results after a search that fell back to thirteen
\* simulated results, the last of which has a negative relevance
C27_Witness ==
  /\ research.pc = "returned"
  /\ research.simulated
  /\ research.results # <<>>
  /\ \E k \in 1..Len(research.allResults) : research.allResults[k].relevance < 0

\* C28: validateInput throws for every depth that is a number outside
\* 1..5, for an empty query, for a query shorter than 2 and for a query
\* longer than 500 characters, and does not throw for a depth in 1..5 with
\* a query of 2 to 500 characters
C28_ValidateInput ==
  research.pc \in {"rejected", "searching"} =>
    LET depth == research.input.options.depth
        len   == research.input.query.len
    IN  /\ (depth.given /\ (depth.v < 1 \/ depth.v > 5)) => research.threw
        /\ (len < 2 \/ len > 500) => research.threw
        /\ (depth.given /\ depth.v \in 1..5 /\ len \in 2..500) => ~research.threw

\* ------------------------------------------------------------------------
\* Properties of the audit
\* ------------------------------------------------------------------------
\* the audit command ran and found the record of the skill
AuditFound ==
  /\ aud.cmd = "audit"
  /\ aud.skill \in RecNames(Loaded(regFile))

\* the directory the audit resolved: that of the category of the first
\* record with the name
AuditedDir ==
  LET skills == Loaded(regFile)
      i == CHOOSE k \in 1..Len(skills) :
             /\ skills[k].name = aud.skill
             /\ \A j \in 1..(k - 1) : skills[j].name # aud.skill
  IN  files[<<skills[i].category, aud.skill>>]

\* the issues of the file scan: those that carry a line number
ScanIssues == SelectSeq(aud.result.issues, LAMBDA x : x.line > 0)

IssueSet == {aud.result.issues[i] : i \in 1..Len(aud.result.issues)}

\* C13: gate law: in every result audit returns, passed is true if and
\* only if summary.critical = 0 and summary.high = 0, whatever the medium
\* and low counts
C13_GateLaw ==
  aud.cmd = "audit" =>
    (aud.result.passed <=>
       (aud.result.summary.critical = 0 /\ aud.result.summary.high = 0))

\* a result with medium and low findings that passed
C13_Witness ==
  /\ aud.cmd = "audit"
  /\ aud.result.passed
  /\ aud.result.summary.medium > 1
  /\ aud.result.summary.low > 0
  /\ \E x \in IssueSet : x.severity = "medium" /\ x.line > 0

\* C14: audit of a skill that has no record in the registry returns one
\* finding, critical, with summary.critical = 1 and passed = false, and
\* touches no file of any skill directory
C14_NotFound ==
  (aud.cmd = "audit" /\ aud.skill \notin RecNames(Loaded(regFile))) =>
    /\ Len(aud.result.issues) = 1
    /\ aud.result.issues[1].severity = "critical"
    /\ aud.result.summary = [critical |-> 1, high |-> 0, medium |-> 0, low |-> 0]
    /\ ~aud.result.passed
    /\ aud.reads = {}

\* a skill without record is audited while the registry has other records
\* and a source file with eval( is on disk
C14_Witness ==
  /\ aud.cmd = "audit"
  /\ aud.skill \notin RecNames(Loaded(regFile))
  /\ Len(Loaded(regFile)) > 0
  /\ files[AuditedPath].src["index.ts"] = File(<<LineClean, LineEval>>)

\* C15: with sandbox.mode "none" or "disabled" in the manifest the result
\* has a high permissions finding and passed = false, even when no source
\* line matches a rule; a wildcard network permission alone adds one
\* medium permissions finding and passed is what the file scan made it
C15_Permissions ==
  AuditFound =>
    /\ (AuditedDir.manifest.parses /\ AuditedDir.manifest.sandbox \in {"none", "disabled"}) =>
         /\ \E x \in IssueSet : x.severity = "high" /\ x.category = "permissions"
         /\ ~aud.result.passed
    /\ (AuditedDir.manifest.parses /\ AuditedDir.manifest.network = "wildcard"
           /\ AuditedDir.manifest.sandbox \notin {"none", "disabled"}) =>
         /\ Len(SelectSeq(aud.result.issues,
                          LAMBDA x : x.severity = "medium" /\ x.category = "permissions")) = 1
         /\ ~(\E x \in IssueSet : x.severity = "high" /\ x.category = "permissions")
         /\ aud.result.passed <=>
              ~(\E k \in 1..Len(ScanIssues) : ScanIssues[k].severity \in {"critical", "high"})

\* sandbox mode "disabled" and no source line that matches a rule
C15_Witness ==
  /\ AuditFound
  /\ AuditedDir.manifest.parses
  /\ AuditedDir.manifest.sandbox = "disabled"
  /\ Len(ScanIssues) = 0
  /\ ~aud.result.passed

\* the line numbers of the source files of the audited directory
LineNumbers ==
  UNION {DOMAIN AuditedDir.src[filesToScan[f]].lines : f \in 1..Len(filesToScan)}

\* the triples (file index, line number, rule index) of the audited
\* directory where the file exists and the line matches the rule
Matches ==
  {t \in (1..Len(filesToScan)) \X LineNumbers \X (1..Len(dangerousPatterns)) :
     LET file == AuditedDir.src[filesToScan[t[1]]]
     IN  /\ file.exists
         /\ t[2] <= Len(file.lines)
         /\ test(dangerousPatterns[t[3]].pattern, file.lines[t[2]])}

\* the finding of a triple
FindingOf(t) ==
  Issue(dangerousPatterns[t[3]].severity, dangerousPatterns[t[3]].category,
        dangerousPatterns[t[3]].message, filesToScan[t[1]], t[2])

\* triple t comes before triple u: by file, then line, then rule
Before(t, u) ==
  \/ t[1] < u[1]
  \/ t[1] = u[1] /\ t[2] < u[2]
  \/ t[1] = u[1] /\ t[2] = u[2] /\ t[3] < u[3]

\* C16: the file scan records exactly one finding for every (file that
\* exists, line, rule) where the line matches the rule, with the rule's
\* severity and category, the file name and the 1-based line number, and
\* the findings are in the order of file, then line, then rule
C16_ScanFindings ==
  AuditFound =>
    /\ Len(ScanIssues) = Cardinality(Matches)
    /\ \A k \in 1..Len(ScanIssues) : \E t \in Matches : ScanIssues[k] = FindingOf(t)
    /\ \A k \in 1..(Len(ScanIssues) - 1) :
         \E t, u \in Matches :
           /\ ScanIssues[k] = FindingOf(t)
           /\ ScanIssues[k + 1] = FindingOf(u)
           /\ Before(t, u)

\* eval( on line 2 of index.ts, and a line of utils.ts that matches two
\* rules
C16_Witness ==
  /\ AuditFound
  /\ AuditedDir.src["index.ts"] = File(<<LineClean, LineEval>>)
  /\ AuditedDir.src["utils.ts"] = File(<<LineExecPath>>)
  /\ Issue("critical", "code-injection", "Use of eval() - potential code injection",
           "index.ts", 2) \in IssueSet
  /\ Len(ScanIssues) >= 3

\* the issues as runAudit shows them
PrintedIssues ==
  LET shown == SelectSeq(aud.out, LAMBDA x : x.k = "issue")
  IN  [j \in 1..Len(shown) |-> shown[j].issue]

\* C17: the audit command exits non-zero if and only if passed = false,
\* and then all findings, grouped critical, high, medium, low, and after
\* them the tally have been printed
C17_ExitAfterPrinting ==
  aud.cmd = "audit" =>
    /\ aud.exit # 0 <=> ~aud.result.passed
    /\ aud.exit # 0 =>
         /\ PrintedIssues =
              SelectSeq(aud.result.issues, LAMBDA x : x.severity = "critical")
              \o SelectSeq(aud.result.issues, LAMBDA x : x.severity = "high")
              \o SelectSeq(aud.result.issues, LAMBDA x : x.severity = "medium")
              \o SelectSeq(aud.result.issues, LAMBDA x : x.severity = "low")
         /\ \E j \in 1..Len(aud.out) :
              /\ aud.out[j].k = "summary"
              /\ aud.out[j].summary = aud.result.summary
              /\ \A i \in 1..Len(aud.out) : aud.out[i].k = "issue" => i < j

\* a failed audit whose medium finding was found before its critical one
C17_Witness ==
  /\ aud.cmd = "audit"
  /\ aud.exit = 1
  /\ \E i, j \in 1..Len(aud.result.issues) :
       /\ i < j
       /\ aud.result.issues[i].severity = "medium"
       /\ aud.result.issues[j].severity = "critical"

====
